---- MODULE Spec2Model ----
(***************************************************************************)
(* Verification model of the deck-manager runtime engine (src-tauri/src):  *)
(* the logical event decoder, the binding table and page navigation of    *)
(* the HID engine, the plugin registry, the command rate limiter and the  *)
(* debounced Key Light controller.                                        *)
(*                                                                         *)
(* Each subsystem has its own specification over the shared variables:    *)
(*   SpecDecoder   connection lifecycle + InputProcessor                   *)
(*   SpecEngine    bindings, current page, swipe navigation, render pass   *)
(*   SpecRegistry  PluginRegistry                                          *)
(*   SpecRate      check_rate_limit and the spawning commands              *)
(*   SpecCtl       KeyLightController and its worker thread (timed)        *)
(***************************************************************************)
EXTENDS Integers, Sequences, FiniteSets, TLC

\* ------------------------------------------------------------------------
\* Bounds of the model
\* ------------------------------------------------------------------------
\* longest button-state vector a frame carries
MaxButtons == 2
\* longest encoder-press vector a frame carries
MaxEncoders == 1
\* highest page a binding is created on
MaxBindingPage == 1

VARIABLES
    \* --- HID engine: connection and InputProcessor -----------------------
    connected,      \* run(): inside run_event_loop
    last_buttons,   \* InputProcessor.last_buttons
    last_encoders,  \* InputProcessor.last_encoders
    op,             \* the StreamDeckInput variant handled last
    events,         \* the LogicalEvents emitted for the frame handled last
    btn_hist,       \* history: the last two button-state frames of this connection
    enc_hist,       \* history: the last two encoder-state frames of this connection
    conn_count,     \* history: connections made so far (capped at 2)
    \* --- HID engine: bindings, page, render pass --------------------------
    bindings,       \* AppState.bindings (Vec<Binding>)
    current_page,   \* the shared current-page cell
    sync_flag,      \* SYNC_IMAGES_FLAG
    swipe,          \* the TouchScreenSwipe frame handled last: <<start, end>>
    page_event,     \* the streamdeck:page event emitted by the last step, or NoEvent
    pre,            \* history: page and flag as they were before the last swipe
    render_queue,   \* render pass in progress: image sources still to load
    engine_io,      \* what the engine thread is blocked in: "none" or "http_get"
    image_cache,    \* keys held by the image cache
    supplied,       \* history: the binding the last set_binding was called with
    \* --- plugin registry ---------------------------------------------------
    plugins,        \* PluginRegistry.plugins: the ids registered
    capability_map, \* PluginRegistry.capability_map: capability id -> plugin id
    enabled,        \* PluginRegistry.enabled: plugin id -> bool
    dispatch,       \* the last handle_event call: what ran and what it returned
    \* --- rate limiter ------------------------------------------------------
    now,            \* Instant::now(), in milliseconds
    rate_limiter,   \* COMMAND_RATE_LIMITER: key -> last accepted instant
    threads,        \* dispatch threads: idle, or about to spawn an accepted command
    spawned_at,     \* history: per key, the instant of its last spawn
    last_spawn,     \* history: the last spawn and the one before it for its key
    \* --- key light controller -----------------------------------------------
    pending,        \* KeyLightController.pending: light -> PendingAdjustment
    has_pending,    \* KeyLightController.has_pending
    q_pc,           \* where the thread calling queue_brightness_delta stands
    worker,         \* the worker thread: position, sleep deadline, snapshot, request
    hist,           \* history: per light, the deltas queued since its last snapshot
    applied,        \* history: per light, its last snapshot and what was sent for it
    budget,         \* encoder ticks still to come, per light
    neg_budget,     \* counter-clockwise ticks still to come
    \* --- toggling RunCommand bindings -------------------------------------
    toggle_states,  \* SystemState.toggle_states: binding key -> bool
    children,       \* child processes spawned by presses and still running
    press,          \* the press being handled: binding, position, what it did
    \* --- image cache ---------------------------------------------------------
    entries,        \* ImageCache.entries, least recently used first
    fs,             \* the icon file on disk: modification time, readable or not
    recency,        \* history: the cached keys in the order of their last use
    cache_op,       \* history: the last cache call, its result, the cache before it
    \* --- connection loop of the HID engine ------------------------------------
    link_pc,        \* run(): where the engine thread stands in the outer loop
    device_present, \* a Stream Deck is plugged in
    device_info,    \* device_info_state: Option<DeviceInfo>
    hotplug_flag,   \* DEVICE_CONNECTED_FLAG
    sleep_left,     \* what is left of thread::sleep(RECONNECT_INTERVAL), in ms
    conn_events,    \* history: the last two streamdeck:connection events
    since_plug,     \* history: ms waited since the monitor last set the flag
    \* --- bindings file ----------------------------------------------------------
    files,          \* bindings.toml, bindings.toml.bak, bindings.toml.tmp
    saver,          \* save_bindings in progress: position and the list being saved
    committed,      \* history: the list of the last save_bindings that returned Ok
    load_result,    \* history: what the last load_bindings returned
    \* --- with_retry -------------------------------------------------------------
    retry,          \* one with_retry call: position, attempt, time, attempts made
    \* --- swipe classifier --------------------------------------------------------
    classified,     \* the touch-strip gesture classified last and its direction
    \* --- encoder rotation and the system volume --------------------------------
    twist,          \* the EncoderTwist frame handled last
    volume_writes,  \* the `wpctl set-volume` invocations that frame caused, in order
    \* --- launch_app ------------------------------------------------------------
    launch,         \* the launch_app call made last: which function, argument, outcome
    \* --- poisoned locks ----------------------------------------------------------
    poisoned,       \* the shared locks a thread panicked under
    running,        \* the threads that have not panicked
    lock_use,       \* the lock acquisition made last and how it ended
    \* --- OBS WebSocket requests -------------------------------------------------
    REQUEST_ID,     \* the global request id counter
    obs_calls,      \* per thread: its send_request_on_socket call
    issued,         \* history: the request ids handed out, in order
    \* --- state manager -----------------------------------------------------------
    os_state,       \* what the OS tools would report: muted, mic muted, playing
    system_state,   \* SystemState but for toggle_states: the three flags and two maps
    CHECK_STATE_NOW, \* the "check now" flag
    TICK_COUNT,     \* run_state_poller's tick counter
    poller,         \* the poller thread: position, what started the poll, new_state
    poll_hist,      \* history: the poll the last step committed, if it was a commit
    unserved,       \* history: sleeps completed since the oldest request not yet polled for
    ticks_since_poll, \* history: sleeps completed since the last periodic poll began
    \* --- image sync in the event loop ---------------------------------------------
    engine_pc,      \* the engine thread: disconnected, at the flag check, rendering, reading
    unrendered,     \* history: a request was made that no render has read the state after
    requests,       \* history: request_image_sync calls since the last check of the flag
    sync_hist,      \* history: what the last check of the flag found and rendered
    displayed,      \* what the last render put on the device
    \* --- event dispatch -----------------------------------------------------------
    frame,          \* history: the HID frame handled last and the handlers it reached
    \* --- Key Light button ---------------------------------------------------------
    light_press,    \* one press on a Key Light binding: the worker, the light, what it stored
    \* --- button images ------------------------------------------------------------
    panel,          \* the bindings and state a render pass sees, and what it left on the keys
    \* --- one request to the streaming software ------------------------------------
    rpc,            \* send_request for one press: position, attempt, transmissions, peer state
    \* --- lock nesting -------------------------------------------------------------
    nest,           \* per thread: the routine it runs and how many of its lock steps are done
    \* --- a toggle and a brightness batch for one light ----------------------------
    pair,           \* the light, the controller's cache, the toggle worker and the batch
    \* --- button indices of a render pass -------------------------------------------
    wide            \* bindings with any usize index, the keys, whether the pass panicked

decoderVars == <<connected, last_buttons, last_encoders, events,
                 btn_hist, enc_hist, conn_count>>

engineVars == <<bindings, current_page, sync_flag, swipe, page_event, pre,
                render_queue, engine_io, image_cache, supplied>>

\* PluginRegistry
regVars == <<plugins, capability_map, enabled, dispatch>>

\* rate limiter and the threads spawning commands
rateVars == <<rate_limiter, threads, spawned_at, last_spawn>>

\* KeyLightController and its worker
ctlVars == <<pending, has_pending, q_pc, worker, hist, applied, budget, neg_budget>>

\* core plugin: toggle states of RunCommand bindings
toggleVars == <<toggle_states, children, press>>

\* the subsystems of the second half of the module
\* ImageCache and the file it caches
cacheVars == <<entries, fs, recency, cache_op>>

\* run() and the hot-plug monitor
linkVars == <<link_pc, device_present, device_info, hotplug_flag, sleep_left,
              conn_events, since_plug>>

\* config.rs
configVars == <<files, saver, committed, load_result>>

audioVars == <<twist, volume_writes>>
\* the subsystems of the third part of the module
lockVars == <<poisoned, running, lock_use>>
obsVars == <<REQUEST_ID, obs_calls, issued>>
pollVars == <<os_state, system_state, CHECK_STATE_NOW, TICK_COUNT, poller, poll_hist,
              unserved, ticks_since_poll>>
syncVars == <<engine_pc, unrendered, requests, sync_hist, displayed>>
loopVars == <<syncVars, frame>>
\* the subsystems of the fourth part of the module
lastVars == <<light_press, panel, rpc, nest, pair, wide>>
lateVars == <<launch, lockVars, obsVars, pollVars, loopVars, lastVars>>
midVars == <<toggleVars, cacheVars, linkVars, configVars, retry, classified, audioVars>>
extVars == <<midVars, lateVars>>

vars == <<op, now, decoderVars, engineVars, regVars, rateVars, ctlVars, extVars>>

\* the engine's variables other than SYNC_IMAGES_FLAG
engineRest == <<bindings, current_page, swipe, page_event, pre,
                render_queue, engine_io, image_cache, supplied>>

notDecoder == <<now, engineVars, regVars, rateVars, ctlVars, extVars>>
notEngine == <<now, decoderVars, regVars, rateVars, ctlVars, extVars>>
notRegistry == <<now, decoderVars, engineVars, rateVars, ctlVars, extVars>>
notRate == <<decoderVars, engineVars, regVars, ctlVars, extVars>>
\* the worker's request_image_sync sets the engine's flag
notCtl == <<decoderVars, regVars, rateVars, engineRest, extVars>>
\* a press uses the rate limiter and sets the engine's flag
notToggle == <<decoderVars, regVars, ctlVars, engineRest, threads, spawned_at, last_spawn,
               cacheVars, linkVars, configVars, retry, classified, audioVars, lateVars>>
oldVars == <<decoderVars, engineVars, regVars, rateVars, ctlVars>>
notCache == <<oldVars, toggleVars, linkVars, configVars, retry, classified, audioVars,
              lateVars>>
notLink == <<now, oldVars, toggleVars, cacheVars, configVars, retry, classified, audioVars,
             lateVars>>
notConfig == <<now, oldVars, toggleVars, cacheVars, linkVars, retry, classified, audioVars,
               lateVars>>
notRetry == <<now, oldVars, toggleVars, cacheVars, linkVars, configVars, classified,
              audioVars, lateVars>>
notSwipe == <<now, oldVars, toggleVars, cacheVars, linkVars, configVars, retry, audioVars,
              lateVars>>
\* launch_app uses the rate limiter
notLaunch == <<now, decoderVars, engineVars, regVars, ctlVars, midVars,
               threads, spawned_at, last_spawn, lockVars, obsVars, pollVars, loopVars,
               lastVars>>
notLocks == <<now, oldVars, midVars, launch, obsVars, pollVars, loopVars, lastVars>>
notObs == <<now, oldVars, midVars, launch, lockVars, pollVars, loopVars, lastVars>>
thirdVars == <<launch, lockVars, obsVars, pollVars, loopVars>>
notLightPress == <<now, oldVars, midVars, thirdVars, panel, rpc, nest, pair, wide>>
notPanel == <<now, oldVars, midVars, thirdVars, light_press, rpc, nest, pair, wide>>
notRpc == <<now, oldVars, midVars, thirdVars, light_press, panel, nest, pair, wide>>
notNest == <<now, oldVars, midVars, thirdVars, light_press, panel, rpc, pair, wide>>
notPair == <<now, oldVars, midVars, thirdVars, light_press, panel, rpc, nest, wide>>
notWide == <<now, oldVars, midVars, thirdVars, light_press, panel, rpc, nest, pair>>
\* the flag check reads the bindings, the page and the poison state of the locks
notSync == <<now, decoderVars, regVars, rateVars, ctlVars, swipe, page_event, pre,
             render_queue, engine_io, image_cache, supplied, midVars, launch, running,
             lock_use, obsVars, pollVars, frame, lastVars>>
\* a frame goes through the processor and may change the page
notDispatch == <<now, connected, events, btn_hist, enc_hist, conn_count, regVars,
                 rateVars, ctlVars, swipe, page_event, pre, render_queue, engine_io,
                 image_cache, supplied, midVars, launch, lockVars, obsVars, pollVars,
                 syncVars, lastVars>>
\* a poll writes toggle_states and sets the engine's flag
notPoller == <<now, decoderVars, regVars, rateVars, ctlVars, engineRest, children, press,
               cacheVars, linkVars, configVars, retry, classified, audioVars,
               launch, lockVars, obsVars, loopVars, lastVars>>
\* what the EncoderTwist arm of the event loop leaves alone
notTwist == <<now, engineVars, regVars, rateVars, ctlVars, toggleVars, cacheVars,
              linkVars, configVars, retry, classified, lateVars>>

\* Option: None, Some(x)
None == <<>>
Some(x) == <<x>>

\* ------------------------------------------------------------------------
\* Logical event decoder (input_processor.rs)
\* ------------------------------------------------------------------------
BoolVectors(n) == UNION {[1..k -> BOOLEAN] : k \in 0..n}

\* LogicalEvent::Button / LogicalEvent::EncoderPress carrying a ButtonEvent;
\* index is 0-based as in the source
LogicalEvent(kind, i, p) == [kind |-> kind, index |-> i, pressed |-> p]

\* first frame: `for (i, &pressed) in states.iter().enumerate() { if pressed ..`
RECURSIVE first_frame_events(_, _, _)
first_frame_events(kind, states, i) ==
    IF i > Len(states) THEN <<>>
    ELSE (IF states[i] THEN <<LogicalEvent(kind, i - 1, TRUE)>> ELSE <<>>)
         \o first_frame_events(kind, states, i + 1)

\* later frames: `for (i, (&prev, &curr)) in last.iter().zip(states).enumerate()`
RECURSIVE zip_diff_events(_, _, _, _)
zip_diff_events(kind, last, states, i) ==
    IF i > Len(last) \/ i > Len(states) THEN <<>>
    ELSE (IF last[i] # states[i]
          THEN <<LogicalEvent(kind, i - 1, states[i])>> ELSE <<>>)
         \o zip_diff_events(kind, last, states, i + 1)

\* a faulty variant: the diff reports the previous value instead of the new one
process_buttons_stale(last, states) ==
    IF last = <<>>
    THEN [events |-> first_frame_events("Button", states, 1), last |-> states]
    ELSE [events |-> zip_diff_events("Button", states, last, 1), last |-> states]

\* InputProcessor::process_buttons: the events and the new last_buttons
process_buttons(last, states) ==
    IF last = <<>>
    THEN [events |-> first_frame_events("Button", states, 1), last |-> states]
    ELSE [events |-> zip_diff_events("Button", last, states, 1), last |-> states]

\* InputProcessor::process_encoder_presses
process_encoder_presses(last, states) ==
    IF last = <<>>
    THEN [events |-> first_frame_events("EncoderPress", states, 1), last |-> states]
    ELSE [events |-> zip_diff_events("EncoderPress", last, states, 1), last |-> states]

\* a faulty variant: the processor outlives the connection
new_processor_kept(old) == old

\* `let mut processor = InputProcessor::default();` at the top of run_event_loop
new_processor(old) == <<>>

Push2(h, x) == IF Len(h) < 2 THEN Append(h, x) ELSE <<h[2], x>>

\* run(): try_connect succeeded, run_event_loop starts with a fresh processor
Connect ==
    /\ ~connected
    /\ connected' = TRUE
    /\ last_buttons' = new_processor(last_buttons)
    /\ last_encoders' = new_processor(last_encoders)
    /\ op' = "Connect"
    /\ UNCHANGED notDecoder
    /\ events' = <<>>
    /\ btn_hist' = <<>>
    /\ enc_hist' = <<>>
    /\ conn_count' = IF conn_count < 2 THEN conn_count + 1 ELSE conn_count

\* run_event_loop: read_input failed, the loop returns and run() reports it
ReadError ==
    /\ connected
    /\ connected' = FALSE
    /\ op' = "ReadError"
    /\ UNCHANGED notDecoder
    /\ events' = <<>>
    /\ UNCHANGED <<last_buttons, last_encoders, btn_hist, enc_hist, conn_count>>

\* run_event_loop: StreamDeckInput::ButtonStateChange(states)
ButtonStateChange ==
    /\ connected
    /\ \E states \in BoolVectors(MaxButtons) :
         LET r == process_buttons(last_buttons, states) IN
           /\ events' = r.events
           /\ last_buttons' = r.last
           /\ btn_hist' = Push2(btn_hist, states)
    /\ op' = "ButtonStateChange"
    /\ UNCHANGED notDecoder
    /\ UNCHANGED <<connected, last_encoders, enc_hist, conn_count>>

\* run_event_loop: StreamDeckInput::EncoderStateChange(states)
EncoderStateChange ==
    /\ connected
    /\ \E states \in BoolVectors(MaxEncoders) :
         LET r == process_encoder_presses(last_encoders, states) IN
           /\ events' = r.events
           /\ last_encoders' = r.last
           /\ enc_hist' = Push2(enc_hist, states)
    /\ op' = "EncoderStateChange"
    /\ UNCHANGED notDecoder
    /\ UNCHANGED <<connected, last_buttons, btn_hist, conn_count>>

DecoderInit ==
    /\ connected = FALSE
    /\ last_buttons = <<>>
    /\ last_encoders = <<>>
    /\ events = <<>>
    /\ btn_hist = <<>>
    /\ enc_hist = <<>>
    /\ conn_count = 0

DecoderNext == Connect \/ ReadError \/ ButtonStateChange \/ EncoderStateChange

\* ------------------------------------------------------------------------
\* Bindings and the command surface (binding.rs, commands.rs)
\* ------------------------------------------------------------------------
NoEvent == [kind |-> "none"]
NoSwipe == <<<<0, 0>>, <<0, 0>>>>
NoPre == [page |-> 0, flag |-> FALSE]

Button(i) == [kind |-> "Button", index |-> i]
Swipe == [kind |-> "Swipe", index |-> 0]
\* the inputs bindings are made for
Inputs == {Button(0), Swipe}

\* image sources: none, a local file, a URL
NoImage == [scheme |-> "none", path |-> ""]
FileImage == [scheme |-> "file", path |-> "/icons/mute.png"]
UrlImage == [scheme |-> "https", path |-> "example.org/a.png"]

\* what set_binding is called with besides input and page: the capability and
\* the cosmetic fields
Payloads == {[capability |-> "Mute", button_image |-> NoImage],
             [capability |-> "OpenURL", button_image |-> UrlImage]}

Binding(input, page, payload) ==
    [input |-> input, page |-> page,
     capability |-> payload.capability, button_image |-> payload.button_image]

\* commands.rs inputs_match: same variant and same index; Swipe matches Swipe
inputs_match(a, b) ==
    CASE a.kind = "Button" /\ b.kind = "Button" -> a.index = b.index
      [] a.kind = "Encoder" /\ b.kind = "Encoder" -> a.index = b.index
      [] a.kind = "EncoderPress" /\ b.kind = "EncoderPress" -> a.index = b.index
      [] a.kind = "Swipe" /\ b.kind = "Swipe" -> TRUE
      [] OTHER -> FALSE

\* Vec::retain(|b| !inputs_match(&b.input, &input))
retain_other_inputs(bs, input) ==
    SelectSeq(bs, LAMBDA b : ~inputs_match(b.input, input))

\* a faulty variant: the new binding is pushed without evicting the old one
set_binding_no_evict(bs, input, page, payload) ==
    Append(bs, Binding(input, page, payload))

\* set_binding: evict the bindings of this input, push the new binding
set_binding(bs, input, page, payload) ==
    Append(retain_other_inputs(bs, input), Binding(input, page, payload))

\* remove_binding
remove_binding(bs, input) == retain_other_inputs(bs, input)

\* streamdeck.rs get_max_page: 0 when there is no binding
get_max_page(bs) ==
    IF bs = <<>> THEN 0
    ELSE CHOOSE m \in {bs[n].page : n \in 1..Len(bs)} :
           \A n \in 1..Len(bs) : bs[n].page <= m

SetBinding ==
    /\ \E input \in Inputs, page \in 0..MaxBindingPage, payload \in Payloads :
         /\ bindings' = set_binding(bindings, input, page, payload)
         /\ supplied' = Binding(input, page, payload)
    /\ sync_flag' = TRUE
    /\ op' = "set_binding"
    /\ UNCHANGED notEngine
    /\ page_event' = NoEvent
    /\ swipe' = NoSwipe /\ pre' = NoPre
    /\ UNCHANGED <<current_page, render_queue, engine_io, image_cache>>

RemoveBinding ==
    /\ \E input \in Inputs : bindings' = remove_binding(bindings, input)
    /\ sync_flag' = TRUE
    /\ op' = "remove_binding"
    /\ UNCHANGED notEngine
    /\ page_event' = NoEvent
    /\ swipe' = NoSwipe /\ pre' = NoPre /\ supplied' = NoEvent
    /\ UNCHANGED <<current_page, render_queue, engine_io, image_cache>>

\* ------------------------------------------------------------------------
\* Swipe classification and page navigation (input_processor.rs, streamdeck.rs)
\* ------------------------------------------------------------------------
SWIPE_THRESHOLD == 50

Abs(x) == IF x < 0 THEN -x ELSE x

\* a faulty variant: a swipe of exactly the threshold counts
detect_swipe_direction_inclusive(start, end) ==
    LET dx == end[1] - start[1]
        dy == Abs(end[2] - start[2])
    IN IF dy > Abs(dx) THEN "None"
       ELSE IF dx >= SWIPE_THRESHOLD THEN "Right"
       ELSE IF dx <= -SWIPE_THRESHOLD THEN "Left"
       ELSE "None"

\* input_processor.rs detect_swipe_direction
detect_swipe_direction(start, end) ==
    LET dx == end[1] - start[1]
        dy == Abs(end[2] - start[2])
    IN IF dy > Abs(dx) THEN "None"
       ELSE IF dx > SWIPE_THRESHOLD THEN "Right"
       ELSE IF dx < -SWIPE_THRESHOLD THEN "Left"
       ELSE "None"

\* a faulty variant: a swipe to the right moves to the next page
navigate_reversed(direction, page, max_allowed_page) ==
    IF direction = "Right"
    THEN (IF page >= max_allowed_page THEN page ELSE page + 1)
    ELSE (IF page = 0 THEN 0 ELSE page - 1)

\* run_event_loop: `let new_page = match direction { .. }`
navigate(direction, page, max_allowed_page) ==
    IF direction = "Left"
    THEN (IF page >= max_allowed_page THEN page ELSE page + 1)
    ELSE (IF page = 0 THEN 0 ELSE page - 1)

\* touch points the swipes are drawn from
Points == {<<100, 50>>, <<220, 55>>, <<100, 200>>}

\* (u16, u16) touch points around the threshold and the diagonal, and the
\* corners of the range
SwipeXs == {0, 49, 50, 51, 100, 101, 102, 65535}
SwipeYs == {0, 50, 51, 52, 65535}

\* detect_swipe_direction applied to a gesture
Classify ==
    \E sx \in SwipeXs, sy \in SwipeYs, ex \in SwipeXs, ey \in SwipeYs :
        /\ classified' = [start |-> <<sx, sy>>, end |-> <<ex, ey>>,
                          direction |-> detect_swipe_direction(<<sx, sy>>, <<ex, ey>>)]
        /\ op' = "classify"
        /\ UNCHANGED notSwipe

SwipeInit == classified = [start |-> <<0, 0>>, end |-> <<0, 0>>, direction |-> "None"]

SwipeNext == Classify

\* run_event_loop: StreamDeckInput::TouchScreenSwipe(start, end). A swipe that
\* is no page navigation goes to handle_logical_event, none of whose arms takes
\* a Swipe event.
TouchScreenSwipe ==
    /\ engine_io = "none" /\ render_queue = <<>>
    /\ \E start \in Points, end \in Points :
         LET direction == detect_swipe_direction(start, end)
             max_binding_page == get_max_page(bindings)
             max_allowed_page == max_binding_page + 1
             page_count == max_allowed_page + 1
             new_page == navigate(direction, current_page, max_allowed_page)
         IN /\ swipe' = <<start, end>>
            /\ pre' = [page |-> current_page, flag |-> sync_flag]
            /\ IF direction # "None" /\ new_page # current_page
               THEN /\ current_page' = new_page
                    /\ page_event' = [kind |-> "streamdeck:page", page |-> new_page,
                                      page_count |-> page_count]
                    /\ sync_flag' = TRUE
               ELSE /\ page_event' = NoEvent
                    /\ UNCHANGED <<current_page, sync_flag>>
    /\ op' = "TouchScreenSwipe"
    /\ UNCHANGED notEngine
    /\ supplied' = NoEvent
    /\ UNCHANGED <<bindings, render_queue, engine_io, image_cache>>

\* ------------------------------------------------------------------------
\* Render pass on the engine thread (streamdeck.rs, button_renderer.rs,
\* image_cache.rs)
\* ------------------------------------------------------------------------
\* kind.key_count() of the connected device
KeyCount == 2

is_url(source) == source.scheme \in {"http", "https"}

\* sync_button_images: the images of the Button bindings of the current page,
\* in storage order; render_binding returns early without an image
RECURSIVE page_images(_, _)
page_images(bs, page) ==
    IF bs = <<>> THEN <<>>
    ELSE LET b == Head(bs) IN
         (IF b.page = page /\ b.input.kind = "Button" /\ b.input.index < KeyCount
             /\ b.button_image # NoImage
          THEN <<b.button_image>> ELSE <<>>) \o page_images(Tail(bs), page)

\* run_event_loop: `if SYNC_IMAGES_FLAG.swap(false, ..)` starts a render pass
SyncImages ==
    /\ engine_io = "none" /\ render_queue = <<>>
    /\ sync_flag
    /\ sync_flag' = FALSE
    /\ render_queue' = page_images(bindings, current_page)
    /\ op' = "sync_images"
    /\ UNCHANGED notEngine
    /\ page_event' = NoEvent
    /\ swipe' = NoSwipe /\ pre' = NoPre /\ supplied' = NoEvent
    /\ UNCHANGED <<bindings, current_page, engine_io, image_cache>>

\* load_cached_with_color on a hit, or for a local file: no network
RenderLocal ==
    /\ engine_io = "none" /\ render_queue # <<>>
    /\ LET source == Head(render_queue) IN
         /\ source \in image_cache \/ ~is_url(source)
         /\ image_cache' = image_cache \cup {source}
    /\ render_queue' = Tail(render_queue)
    /\ op' = "render"
    /\ UNCHANGED notEngine
    /\ page_event' = NoEvent
    /\ swipe' = NoSwipe /\ pre' = NoPre /\ supplied' = NoEvent
    /\ UNCHANGED <<bindings, current_page, sync_flag, engine_io>>

\* load_cached_with_color on a miss for a URL: load_image_uncached calls
\* reqwest::blocking::get on the calling (engine) thread
RenderFetchUrl ==
    /\ engine_io = "none" /\ render_queue # <<>>
    /\ Head(render_queue) \notin image_cache /\ is_url(Head(render_queue))
    /\ engine_io' = "http_get"
    /\ op' = "render"
    /\ UNCHANGED notEngine
    /\ page_event' = NoEvent
    /\ swipe' = NoSwipe /\ pre' = NoPre /\ supplied' = NoEvent
    /\ UNCHANGED <<bindings, current_page, sync_flag, render_queue, image_cache>>

\* the GET returns (or fails): the image is cached on success
RenderFetchDone ==
    /\ engine_io = "http_get"
    /\ \E ok \in BOOLEAN :
         image_cache' = IF ok THEN image_cache \cup {Head(render_queue)}
                        ELSE image_cache
    /\ engine_io' = "none"
    /\ render_queue' = Tail(render_queue)
    /\ op' = "render"
    /\ UNCHANGED notEngine
    /\ page_event' = NoEvent
    /\ swipe' = NoSwipe /\ pre' = NoPre /\ supplied' = NoEvent
    /\ UNCHANGED <<bindings, current_page, sync_flag>>

\* the binding lists the program starts from (config::load_bindings)
InitialBindings ==
    {<<>>,
     <<Binding(Button(0), 0, [capability |-> "Mute", button_image |-> NoImage])>>,
     <<Binding(Button(0), 0, [capability |-> "Mute", button_image |-> FileImage]),
       Binding(Button(0), 1, [capability |-> "OpenURL", button_image |-> UrlImage]),
       Binding(Swipe, 1, [capability |-> "Mute", button_image |-> NoImage])>>}

\* startup: config::load_bindings fills the list before the engine starts
LoadBindings ==
    /\ op = "Init"
    /\ bindings' \in InitialBindings
    /\ op' = "load_bindings"
    /\ UNCHANGED notEngine
    /\ UNCHANGED <<current_page, sync_flag, swipe, page_event, pre, render_queue,
                   engine_io, image_cache, supplied>>

EngineInit ==
    /\ bindings = <<>>
    /\ current_page = 0
    /\ sync_flag = FALSE
    /\ swipe = NoSwipe
    /\ page_event = NoEvent
    /\ pre = NoPre
    /\ supplied = NoEvent
    /\ render_queue = <<>>
    /\ engine_io = "none"
    /\ image_cache = {}

EngineNext ==
    \/ LoadBindings \/ SetBinding \/ RemoveBinding \/ TouchScreenSwipe
    \/ SyncImages \/ RenderLocal \/ RenderFetchUrl \/ RenderFetchDone

\* ---------------------------------------------------------------------------
\* Encoder rotation and the system volume (input_processor.rs, streamdeck.rs)
\* ---------------------------------------------------------------------------
\* Volumes and steps are counted in ten-thousandths (0.42 is 4200); the argument
\* of `wpctl set-volume` has three decimals and is counted in thousandths.

\* encoders a twist frame reports
TwistEncoders == 2

Encoder(i) == [kind |-> "Encoder", index |-> i]
EncoderInputs == {Encoder(i) : i \in 0..(TwistEncoders - 1)}

\* i8 deltas of one encoder in one frame
Twists == {-3, 0, 3}

SystemAudio(step) == [type |-> "SystemAudio", step |-> step]
\* capabilities given to encoders: two volume steps, and one that is not SystemAudio
AudioPayloads == {[capability |-> SystemAudio(125), button_image |-> NoImage],
                  [capability |-> SystemAudio(129), button_image |-> NoImage],
                  [capability |-> [type |-> "MediaNext", step |-> 0],
                   button_image |-> NoImage]}

\* a whitespace-separated word of the tool's output and what parse::<f32> makes of it
Word(text, parsed) == [text |-> text, f32 |-> parsed]
\* `wpctl get-volume` outputs: the tool is missing, a low volume, a high volume
\* of a muted sink
Stdouts == {<<>>,
            <<Word("Volume:", None), Word("0.01", Some(100))>>,
            <<Word("Volume:", None), Word("0.99", Some(9900)),
              Word("[MUTED]", None)>>}

\* LogicalEvent::Encoder carrying an EncoderEvent; index is 0-based
EncoderEvent(i, d) == [kind |-> "Encoder", index |-> i, delta |-> d]

RECURSIVE process_encoders_from(_, _)
process_encoders_from(deltas, i) ==
    IF i > Len(deltas) THEN <<>>
    ELSE (IF deltas[i] # 0 THEN <<EncoderEvent(i - 1, deltas[i])>> ELSE <<>>)
         \o process_encoders_from(deltas, i + 1)

\* a faulty variant: the filter on d != 0 is missing
process_encoders_unfiltered(deltas) ==
    [i \in 1..Len(deltas) |-> EncoderEvent(i - 1, deltas[i])]

\* InputProcessor::process_encoders
process_encoders(deltas) == process_encoders_from(deltas, 1)

\* a faulty variant: the index of the input is not compared
matches_any_index(binding, event) == binding.input.kind = event.kind

\* Binding::matches
matches(binding, event) ==
    CASE binding.input.kind = "Button" /\ event.kind = "Button" ->
           event.index = binding.input.index
      [] binding.input.kind = "Encoder" /\ event.kind = "Encoder" ->
           event.index = binding.input.index
      [] binding.input.kind = "EncoderPress" /\ event.kind = "EncoderPress" ->
           event.index = binding.input.index
      [] binding.input.kind = "Swipe" /\ event.kind = "Swipe" -> TRUE
      [] OTHER -> FALSE

\* stdout.split_whitespace().find_map(|word| word.parse::<f32>().ok())
RECURSIVE find_map_parse(_)
find_map_parse(words) ==
    IF words = <<>> THEN None
    ELSE IF Head(words).f32 # None THEN Head(words).f32
    ELSE find_map_parse(Tail(words))

\* get_current_volume
get_current_volume(stdout) == find_map_parse(stdout)

unwrap_or(opt, default) == IF opt = None THEN default ELSE opt[1]

clamp(x, lo, hi) == IF x < lo THEN lo ELSE IF x > hi THEN hi ELSE x

\* format!("{:.3}", v): the nearest thousandth; the f32 representation error of
\* the sum decides on which side a decimal tie falls
format_3(v, up) ==
    LET q == v \div 10
        r == v % 10
    IN IF r < 5 THEN q ELSE IF r > 5 THEN q + 1 ELSE IF up THEN q + 1 ELSE q

\* a faulty variant: the sum is written unclamped
apply_volume_delta_unclamped(delta, stdout, up) ==
    format_3(unwrap_or(get_current_volume(stdout), 5000) + delta, up)

\* apply_volume_delta: the argument of `wpctl set-volume`
apply_volume_delta(delta, stdout, up) ==
    LET current == unwrap_or(get_current_volume(stdout), 5000)
        new_volume == clamp(current + delta, 0, 10000)
    IN format_3(new_volume, up)

\* handle_logical_event for one event: the volume writes it causes, binding by
\* binding
RECURSIVE handle_logical_event(_, _, _, _)
handle_logical_event(event, bs, stdout, up) ==
    IF bs = <<>> THEN <<>>
    ELSE (IF matches(Head(bs), event) /\ Head(bs).capability.type = "SystemAudio"
             /\ event.kind = "Encoder"
          THEN <<[index |-> event.index, delta |-> event.delta,
                  step |-> Head(bs).capability.step, stdout |-> stdout[event.index],
                  arg |-> apply_volume_delta(event.delta * Head(bs).capability.step,
                                             stdout[event.index], up)]>>
          ELSE <<>>)
         \o handle_logical_event(event, Tail(bs), stdout, up)

\* `for event in processor.process_encoders(&deltas)`: the writes of all events
RECURSIVE handle_events(_, _, _, _)
handle_events(evs, bs, stdout, up) ==
    IF evs = <<>> THEN <<>>
    ELSE handle_logical_event(Head(evs), bs, stdout, up)
         \o handle_events(Tail(evs), bs, stdout, up)

\* bindings.iter().filter(|b| b.page == page)
page_bindings(bs, page) == SelectSeq(bs, LAMBDA b : b.page = page)

\* commands.rs set_binding for an encoder
AudioSetBinding ==
    /\ twist = <<>>
    /\ \E input \in EncoderInputs, page \in 0..MaxBindingPage, payload \in AudioPayloads :
         /\ bindings' = set_binding(bindings, input, page, payload)
         /\ supplied' = Binding(input, page, payload)
    /\ sync_flag' = TRUE
    /\ op' = "set_binding"
    /\ UNCHANGED notEngine
    /\ page_event' = NoEvent
    /\ swipe' = NoSwipe /\ pre' = NoPre
    /\ UNCHANGED <<current_page, render_queue, engine_io, image_cache>>

\* run_event_loop: StreamDeckInput::EncoderTwist(deltas); each event is emitted
\* and handled against the bindings of the current page, and every volume
\* write is preceded by its own `wpctl get-volume`
EncoderTwist ==
    /\ twist = <<>>
    /\ \E deltas \in [1..TwistEncoders -> Twists],
          stdout \in [0..(TwistEncoders - 1) -> Stdouts], up \in BOOLEAN :
         \* the tool is not run for an encoder that did not turn
         /\ \A i \in 1..TwistEncoders : deltas[i] = 0 => stdout[i - 1] = <<>>
         /\ twist' = deltas
         /\ events' = process_encoders(deltas)
         /\ volume_writes' = handle_events(process_encoders(deltas),
                                           page_bindings(bindings, current_page),
                                           stdout, up)
    /\ op' = "EncoderTwist"
    /\ UNCHANGED notTwist
    /\ UNCHANGED <<connected, last_buttons, last_encoders, btn_hist, enc_hist, conn_count>>

AudioInit ==
    /\ twist = <<>>
    /\ volume_writes = <<>>

\* a swipe on the touch strip before the first frame
AudioSwipe == twist = <<>> /\ TouchScreenSwipe

\* No action reads what a frame left behind (twist, events, volume_writes), so
\* the bindings and the page are followed up to the first frame: a later frame
\* is handled as a first frame is under the same bindings and page.
AudioNext == AudioSetBinding \/ AudioSwipe \/ EncoderTwist

\* ---------------------------------------------------------------------------
\* Plugin registry (plugin/registry.rs)
\* ---------------------------------------------------------------------------

\* the plugins create_plugin_registry can register
PluginIds == {"core", "elgato", "obs"}

\* Plugin::is_core: only the core plugin overrides the default of false
is_core(p) == p = "core"

\* Plugin::capabilities, by capability id
capabilities(p) ==
    CASE p = "core" -> {"RunCommand"}
      [] p = "elgato" -> {"ElgatoKeyLight"}
      [] OTHER -> {"OBSScene"}

\* capability types a binding can carry; an owner exists once its plugin is registered
CapabilityTypes == {"RunCommand", "ElgatoKeyLight", "OBSScene"}

\* Option<&PluginConfig> handed to register
Configs == {"None", "SomeEnabled", "SomeDisabled"}

\* config.cloned().unwrap_or_default().enabled; PluginConfig::default() is enabled
cfg_enabled(config) == config # "SomeDisabled"

\* insert into a HashMap held as a function
Insert(map, k, v) == [x \in DOMAIN map \cup {k} |-> IF x = k THEN v ELSE map[x]]

NoDispatch == [cap |-> "none", pressed |-> FALSE, handler |-> "none", result |-> FALSE]

\* the plugins' handle_event: a press of a bound input is handled, a release is not
plugin_handle_event(p, cap, pressed) == pressed

\* handle_event that skips the enabled check
dispatch_unchecked(cap, pressed) ==
    IF cap \notin DOMAIN capability_map
    THEN [cap |-> cap, pressed |-> pressed, handler |-> "none", result |-> FALSE]
    ELSE LET plugin_id == capability_map[cap] IN
         IF plugin_id \in plugins
         THEN [cap |-> cap, pressed |-> pressed, handler |-> plugin_id,
               result |-> plugin_handle_event(plugin_id, cap, pressed)]
         ELSE [cap |-> cap, pressed |-> pressed, handler |-> "none", result |-> FALSE]

\* PluginRegistry::handle_event: owner lookup, enabled check, delegation
dispatch_event(cap, pressed) ==
    IF cap \notin DOMAIN capability_map
    THEN [cap |-> cap, pressed |-> pressed, handler |-> "none", result |-> FALSE]
    ELSE LET plugin_id == capability_map[cap]
             is_enabled == IF plugin_id \in DOMAIN enabled THEN enabled[plugin_id] ELSE TRUE
         IN  IF ~is_enabled
             THEN [cap |-> cap, pressed |-> pressed, handler |-> "none", result |-> FALSE]
             ELSE IF plugin_id \in plugins
                  THEN [cap |-> cap, pressed |-> pressed, handler |-> plugin_id,
                        result |-> plugin_handle_event(plugin_id, cap, pressed)]
                  ELSE [cap |-> cap, pressed |-> pressed, handler |-> "none", result |-> FALSE]

\* PluginRegistry::register (every plugin's initialize returns Ok)
Register ==
    \E p \in PluginIds, config \in Configs :
        /\ capability_map' = [c \in DOMAIN capability_map \cup capabilities(p) |->
                                IF c \in capabilities(p) THEN p ELSE capability_map[c]]
        /\ enabled' = Insert(enabled, p, cfg_enabled(config))
        /\ plugins' = plugins \cup {p}
        /\ dispatch' = NoDispatch
        /\ op' = "register"
        /\ UNCHANGED notRegistry

\* PluginRegistry::set_plugin_enabled
SetPluginEnabled ==
    \E plugin_id \in PluginIds \cup {"unknown"}, enabled_state \in BOOLEAN :
        /\ enabled' = IF plugin_id \in DOMAIN enabled
                      THEN Insert(enabled, plugin_id, enabled_state)
                      ELSE enabled
        /\ dispatch' = [NoDispatch EXCEPT !.cap = plugin_id,
                                          !.result = plugin_id \in DOMAIN enabled]
        /\ op' = "set_plugin_enabled"
        /\ UNCHANGED <<plugins, capability_map>>
        /\ UNCHANGED notRegistry

\* PluginRegistry::handle_event
HandleEvent ==
    \E cap \in CapabilityTypes, pressed \in BOOLEAN :
        /\ dispatch' = dispatch_event(cap, pressed)
        /\ op' = "handle_event"
        /\ UNCHANGED <<plugins, capability_map, enabled>>
        /\ UNCHANGED notRegistry

RegistryInit ==
    /\ plugins = {}
    /\ capability_map = [c \in {} |-> "none"]
    /\ enabled = [p \in {} |-> TRUE]
    /\ dispatch = NoDispatch

RegistryNext == Register \/ SetPluginEnabled \/ HandleEvent

\* ---------------------------------------------------------------------------
\* Command rate limiter and the functions that spawn processes
\* (core/commands.rs; streamdeck.rs carries the same check_rate_limit)
\* ---------------------------------------------------------------------------

MIN_COMMAND_INTERVAL == 200

\* granularity of the clock while commands are dispatched, and how far it runs
RateTick == 100
MaxRateTicks == 3
MaxThreads == 2

Threads == 1..MaxThreads

\* strings are sequences of characters
CommandStrings == { <<>>, <<"a">>, <<" ", "a">>, <<"'", "a">> }
AppStrings == { <<"a">>, <<"a", " ">>, <<"a", ";">> }
UrlStrings == { <<"t", "e", "l", ":", "1">>, <<"a">> }

is_whitespace(c) == c = " "

RECURSIVE trim_start(_)
trim_start(s) ==
    IF s # <<>> /\ is_whitespace(Head(s)) THEN trim_start(Tail(s)) ELSE s

RECURSIVE trim_end(_)
trim_end(s) ==
    IF s # <<>> /\ is_whitespace(s[Len(s)])
    THEN trim_end(SubSeq(s, 1, Len(s) - 1))
    ELSE s

\* str::trim
trim(s) == trim_end(trim_start(s))

\* str::starts_with
starts_with(s, prefix) ==
    Len(s) >= Len(prefix) /\ SubSeq(s, 1, Len(prefix)) = prefix

\* str::contains for a pattern
contains(s, pat) ==
    \E i \in 1..Len(s) : i + Len(pat) - 1 <= Len(s) /\ SubSeq(s, i, i + Len(pat) - 1) = pat

DANGEROUS_CHARS ==
    {"$", "backtick", ";", "|", "&", ">", "<", "(", ")", "{", "}", "[", "]", "!", "LF", "CR"}

\* shlex::split returns None on an unterminated quote
shlex_split_ok(s) == Cardinality({i \in 1..Len(s) : s[i] = "'"}) % 2 = 0

\* launch_app's checks ahead of the rate limiter
app_allowed(app) ==
    /\ \A i \in 1..Len(app) : app[i] \notin DANGEROUS_CHARS
    /\ ~contains(app, <<".", ".">>)
    /\ starts_with(app, <<"/">>) =>
         \/ starts_with(app, <<"/", "u", "s", "r", "/", "b", "i", "n", "/">>)
         \/ starts_with(app, <<"/", "u", "s", "r", "/", "l", "o", "c", "a", "l", "/", "b", "i", "n", "/">>)
         \/ starts_with(app, <<"/", "b", "i", "n", "/">>)
         \/ starts_with(app, <<"/", "o", "p", "t", "/">>)

\* open_url's scheme check
url_allowed(url) ==
    \/ starts_with(url, <<"h", "t", "t", "p", ":", "/", "/">>)
    \/ starts_with(url, <<"h", "t", "t", "p", "s", ":", "/", "/">>)
    \/ starts_with(url, <<"m", "a", "i", "l", "t", "o", ":">>)
    \/ starts_with(url, <<"t", "e", "l", ":">>)

\* format!("cmd:{}", cmd) and its siblings
rate_key(kind, s) == <<kind, s>>

\* check_rate_limit without the comparison against the last instant
check_rate_limit_open(limiter, key, t) == TRUE

\* check_rate_limit: whether the call is accepted
check_rate_limit(limiter, key, t) ==
    ~(key \in DOMAIN limiter /\ t - limiter[key] < MIN_COMMAND_INTERVAL)

Idle == [pc |-> "idle", key |-> <<>>]

NoSpawn == [key |-> <<>>, at |-> 0, prev |-> -1]

\* the three functions up to and including check_rate_limit: a call that
\* passes its checks and the rate limiter goes on to spawn
accepts(kind, raw, allowed) ==
    /\ trim(raw) # <<>>
    /\ allowed
    /\ check_rate_limit(rate_limiter, rate_key(kind, trim(raw)), now)

\* run_shell_command up to the rate limiter
RunShellCommand ==
    \E t \in Threads, cmd \in CommandStrings :
        /\ threads[t].pc = "idle"
        /\ IF accepts("cmd", cmd, TRUE)
           THEN /\ rate_limiter' = Insert(rate_limiter, rate_key("cmd", trim(cmd)), now)
                /\ threads' = [threads EXCEPT ![t] =
                                  [pc |-> "accepted", key |-> rate_key("cmd", trim(cmd))]]
           ELSE UNCHANGED <<rate_limiter, threads>>
        /\ op' = "run_shell_command"
        /\ UNCHANGED <<now, spawned_at, last_spawn>>
        /\ UNCHANGED notRate

\* launch_app up to the rate limiter
LaunchApp ==
    \E t \in Threads, app \in AppStrings :
        /\ threads[t].pc = "idle"
        /\ IF accepts("app", app, app_allowed(trim(app)))
           THEN /\ rate_limiter' = Insert(rate_limiter, rate_key("app", trim(app)), now)
                /\ threads' = [threads EXCEPT ![t] =
                                  [pc |-> "accepted", key |-> rate_key("app", trim(app))]]
           ELSE UNCHANGED <<rate_limiter, threads>>
        /\ op' = "launch_app"
        /\ UNCHANGED <<now, spawned_at, last_spawn>>
        /\ UNCHANGED notRate

\* open_url up to the rate limiter
OpenUrl ==
    \E t \in Threads, url \in UrlStrings :
        /\ threads[t].pc = "idle"
        /\ IF accepts("url", url, url_allowed(trim(url)))
           THEN /\ rate_limiter' = Insert(rate_limiter, rate_key("url", trim(url)), now)
                /\ threads' = [threads EXCEPT ![t] =
                                  [pc |-> "accepted", key |-> rate_key("url", trim(url))]]
           ELSE UNCHANGED <<rate_limiter, threads>>
        /\ op' = "open_url"
        /\ UNCHANGED <<now, spawned_at, last_spawn>>
        /\ UNCHANGED notRate

\* the rest of an accepted call: Command::spawn, which run_shell_command only
\* reaches when shlex::split succeeds
Spawn ==
    \E t \in Threads :
        LET key == threads[t].key IN
        /\ threads[t].pc = "accepted"
        /\ threads' = [threads EXCEPT ![t] = Idle]
        /\ IF key[1] = "cmd" /\ ~shlex_split_ok(key[2])
           THEN UNCHANGED <<spawned_at, last_spawn>>
           ELSE /\ spawned_at' = Insert(spawned_at, key, now)
                /\ last_spawn' = [key |-> key, at |-> now,
                                  prev |-> IF key \in DOMAIN spawned_at
                                           THEN spawned_at[key] ELSE -1]
        /\ op' = "spawn"
        /\ UNCHANGED <<now, rate_limiter>>
        /\ UNCHANGED notRate

\* time passes between calls; the calls themselves do not block
RateClock ==
    /\ \A t \in Threads : threads[t].pc = "idle"
    /\ now < MaxRateTicks * RateTick
    /\ now' = now + RateTick
    /\ op' = "clock"
    /\ UNCHANGED <<rate_limiter, threads, spawned_at, last_spawn>>
    /\ UNCHANGED notRate

RateInit ==
    /\ rate_limiter = [k \in {} |-> 0]
    /\ threads = [t \in Threads |-> Idle]
    /\ spawned_at = [k \in {} |-> 0]
    /\ last_spawn = NoSpawn

RateNext == RunShellCommand \/ LaunchApp \/ OpenUrl \/ Spawn \/ RateClock

\* ---------------------------------------------------------------------------
\* The two launch_app functions (core/commands.rs, streamdeck.rs)
\* ---------------------------------------------------------------------------
\* arguments of a LaunchApp binding
LaunchArgs ==
    {<<"/", "b", "i", "n", "/", "l", "s">>,
     <<"/", "h", "o", "m", "e", "/", "x", "/", "l", "s">>,
     <<"l", "s", ";", " ", "r", "m", " ", "-", "r", "f", " ", "/">>,
     <<" ">>,
     <<" ", "l", "s", " ">>,
     <<"/", "o", "p", "t", "/", ".", ".", "/", "s", "h">>,
     <<"/", "u", "s", "r", "/", "b", "i", "n", "/", "a", " ", "b">>}

\* streamdeck.rs launch_app's check ahead of the rate limiter:
\* `app.contains("..") || (app.starts_with('/') && app.contains(' '))` rejects
streamdeck_app_allowed(app) ==
    ~(contains(app, <<".", ".">>) \/ (starts_with(app, <<"/">>) /\ contains(app, <<" ">>)))

NoLaunch == [via |-> "none", app |-> <<>>, called |-> FALSE, process |-> FALSE]

\* a launch_app call from its trim to Command::new(app).spawn(), which starts a
\* process when the system finds the program
launch_app(via, raw, allowed, found) ==
    LET app == trim(raw)
        go == /\ app # <<>>
              /\ allowed
              /\ check_rate_limit(rate_limiter, rate_key("app", app), now)
    IN /\ rate_limiter' = IF go THEN Insert(rate_limiter, rate_key("app", app), now)
                          ELSE rate_limiter
       /\ launch' = [via |-> via, app |-> raw, called |-> go, process |-> go /\ found]
       /\ op' = "launch_app"
       /\ UNCHANGED notLaunch

\* core/commands.rs launch_app, reached through the core plugin's handle_event
CoreLaunchApp ==
    \E raw \in LaunchArgs, found \in BOOLEAN :
        launch_app("core", raw, app_allowed(trim(raw)), found)

\* streamdeck.rs launch_app, reached through the event loop's handle_logical_event
StreamdeckLaunchApp ==
    \E raw \in LaunchArgs, found \in BOOLEAN :
        launch_app("streamdeck", raw, streamdeck_app_allowed(trim(raw)), found)

LaunchInit == launch = NoLaunch

LaunchNext == CoreLaunchApp \/ StreamdeckLaunchApp \/ RateClock

\* ---------------------------------------------------------------------------
\* Shared locks and what their users do with a PoisonError
\* ---------------------------------------------------------------------------
Locks == {"system_state", "bindings", "current_page", "device_info", "registry",
          "image_cache", "rate_limiter", "pending"}

LockThreads == {"engine", "state_manager", "controller_worker", "dispatch", "command"}

\* One acquisition in the source. `how` is what the code does with the Err of
\* lock(): "recover" is unwrap_or_else(|e| e.into_inner()), "unwrap" is
\* unwrap(), "skip" is `if let Ok(..)`, `.ok()` or `Err(_) => continue`,
\* "error" is `map_err(..)?`. `holding` are the guards the thread holds there.
LockUse(thread, lock, how, holding) ==
    [thread |-> thread, lock |-> lock, how |-> how, holding |-> holding]

LockUses ==
    {\* streamdeck.rs run_event_loop
     LockUse("engine", "current_page", "recover", {}),
     LockUse("engine", "bindings", "skip", {}),
     LockUse("engine", "system_state", "skip", {"bindings"}),
     LockUse("engine", "device_info", "skip", {}),
     LockUse("engine", "rate_limiter", "recover", {}),
     \* image_cache.rs with_cache, called by the render pass under both guards
     LockUse("engine", "image_cache", "unwrap", {"bindings", "system_state"}),
     \* state_manager.rs run_state_poller
     LockUse("state_manager", "system_state", "unwrap", {}),
     \* key_light_controller.rs worker
     LockUse("controller_worker", "pending", "skip", {}),
     \* plugin/registry.rs handle_event
     LockUse("dispatch", "registry", "unwrap", {}),
     \* commands.rs set_binding, get_device_info
     LockUse("command", "bindings", "error", {}),
     LockUse("command", "device_info", "error", {})}

\* what lock() gives the caller and what the caller makes of it
lock_outcome(u, is_poisoned) ==
    IF ~is_poisoned \/ u.how = "recover" THEN "done"
    ELSE IF u.how = "unwrap" THEN "panic"
    ELSE IF u.how = "skip" THEN "skipped"
    ELSE "error"

NoLockUse == [use |-> LockUse("none", "none", "none", {}), was_poisoned |-> FALSE,
              outcome |-> "none"]

\* a thread panics while it holds a lock: the guard's drop poisons the lock
PanicHolding ==
    \E l \in Locks :
        /\ l \notin poisoned
        /\ poisoned' = poisoned \cup {l}
        /\ op' = "panic"
        /\ UNCHANGED <<running, lock_use>>
        /\ UNCHANGED notLocks

\* a running thread reaches one of its acquisitions; a panic there unwinds
\* through the guards it holds
TakeLock ==
    \E u \in LockUses :
        LET outcome == lock_outcome(u, u.lock \in poisoned) IN
        /\ u.thread \in running
        /\ u.holding \cap poisoned = {}
        /\ lock_use' = [use |-> u, was_poisoned |-> u.lock \in poisoned,
                        outcome |-> outcome]
        /\ running' = IF outcome = "panic" THEN running \ {u.thread} ELSE running
        /\ poisoned' = IF outcome = "panic" THEN poisoned \cup u.holding ELSE poisoned
        /\ op' = "lock"
        /\ UNCHANGED notLocks

LocksInit ==
    /\ poisoned = {}
    /\ running = LockThreads
    /\ lock_use = NoLockUse

LocksNext == PanicHolding \/ TakeLock

\* ---------------------------------------------------------------------------
\* OBS WebSocket requests (plugins/obs/client.rs)
\* ---------------------------------------------------------------------------
\* op::REQUEST and op::REQUEST_RESPONSE
REQUEST == 6
REQUEST_RESPONSE == 7

\* requests made in a run
MaxRequests == 3

\* threads that call send_request, each on a socket of its own
ObsThreads == {"worker", "command"}

\* what the peer can put on a socket: an event, or a response carrying any
\* request id
ObsMessages ==
    {[op |-> 5, requestId |-> 0]}
    \cup {[op |-> REQUEST_RESPONSE, requestId |-> i] : i \in 1..MaxRequests}

IdleObs == [pc |-> "idle", request |-> [op |-> 0, requestId |-> 0],
            received |-> [op |-> 0, requestId |-> 0], result |-> "none"]

\* the check made on the message read: only the opcode is looked at
response_accepted(request, response) == response.op = REQUEST_RESPONSE

\* send_request_on_socket up to socket.send: next_request_id is
\* REQUEST_ID.fetch_add(1), and the request carries it
ObsSend ==
    \E t \in ObsThreads :
        /\ obs_calls[t].pc = "idle"
        /\ REQUEST_ID <= MaxRequests
        /\ REQUEST_ID' = REQUEST_ID + 1
        /\ issued' = Append(issued, REQUEST_ID)
        /\ obs_calls' = [obs_calls EXCEPT ![t] =
                            [pc |-> "sent",
                             request |-> [op |-> REQUEST, requestId |-> REQUEST_ID],
                             received |-> IdleObs.received, result |-> "none"]]
        /\ op' = "obs_send"
        /\ UNCHANGED notObs

\* send_request_on_socket from socket.read to its return
ObsRead ==
    \E t \in ObsThreads, msg \in ObsMessages :
        /\ obs_calls[t].pc = "sent"
        /\ obs_calls' = [obs_calls EXCEPT ![t] =
                            [pc |-> "idle", request |-> obs_calls[t].request,
                             received |-> msg,
                             result |-> IF response_accepted(obs_calls[t].request, msg)
                                        THEN "Ok" ELSE "Err"]]
        /\ op' = "obs_read"
        /\ UNCHANGED <<REQUEST_ID, issued>>
        /\ UNCHANGED notObs

\* socket.read fails: the connection was closed
ObsReadError ==
    \E t \in ObsThreads :
        /\ obs_calls[t].pc = "sent"
        /\ obs_calls' = [obs_calls EXCEPT ![t] =
                            [pc |-> "idle", request |-> obs_calls[t].request,
                             received |-> IdleObs.received, result |-> "Err"]]
        /\ op' = "obs_read_error"
        /\ UNCHANGED <<REQUEST_ID, issued>>
        /\ UNCHANGED notObs

ObsInit ==
    /\ REQUEST_ID = 1
    /\ obs_calls = [t \in ObsThreads |-> IdleObs]
    /\ issued = <<>>

ObsNext == ObsSend \/ ObsRead \/ ObsReadError

\* ---------------------------------------------------------------------------
\* Toggling RunCommand bindings (core/commands.rs: handle_event,
\* flip_toggle_state)
\* ---------------------------------------------------------------------------

\* most child processes alive at once
MaxChildren == 2

\* the command strings of the RunCommand bindings: one that runs, the empty
\* one, one that shlex cannot split
ToggleCommands == { <<"a">>, <<>>, <<"'", "a">> }

\* Capability::RunCommand { command, toggle } bound to a button of some page
RunCommandBindings ==
    [input : {Button(0)}, page : 0..MaxBindingPage,
     command : ToggleCommands, toggle : BOOLEAN]

\* binding_key: the input and the page
binding_key(binding) == <<binding.input, binding.page>>

\* toggle_states.get(&key).copied().unwrap_or(false)
toggle_get(states, key) == IF key \in DOMAIN states THEN states[key] ELSE FALSE

\* a faulty variant: stores the state it read
flip_keep(states, key) == Insert(states, key, toggle_get(states, key))

\* flip_toggle_state: insert the negation of the current state
flip(states, key) == Insert(states, key, ~toggle_get(states, key))

NoBinding == [input |-> Swipe, page |-> 0, command |-> <<>>, toggle |-> FALSE]

NoPress == [pc |-> "idle", binding |-> NoBinding, spawned |-> FALSE,
            child_alive |-> FALSE, before |-> [k \in {} |-> FALSE],
            flag_before |-> FALSE]

\* handle_event on a press, first part: run_shell_command(command). The
\* command is spawned when it is non-empty, passes the rate limiter, splits
\* into arguments and Command::spawn returns Ok.
PressRunCommand ==
    \E binding \in RunCommandBindings, spawn_ok \in BOOLEAN :
        LET cmd == trim(binding.command)
            accepted == cmd # <<>> /\ check_rate_limit(rate_limiter, rate_key("cmd", cmd), now)
            spawned == accepted /\ shlex_split_ok(cmd) /\ spawn_ok
        IN  /\ press.pc = "idle"
            /\ spawned => children < MaxChildren
            /\ rate_limiter' = IF accepted
                               THEN Insert(rate_limiter, rate_key("cmd", cmd), now)
                               ELSE rate_limiter
            /\ children' = IF spawned THEN children + 1 ELSE children
            /\ press' = [pc |-> "ran", binding |-> binding, spawned |-> spawned,
                         child_alive |-> spawned, before |-> toggle_states,
                         flag_before |-> sync_flag]
            /\ op' = "run_shell_command"
            /\ UNCHANGED <<now, toggle_states, sync_flag>>
            /\ UNCHANGED notToggle

\* handle_event on a press, second part: flip_toggle_state when the binding
\* toggles, then return true
PressFlip ==
    /\ press.pc = "ran"
    /\ IF press.binding.toggle
       THEN /\ toggle_states' = flip(toggle_states, binding_key(press.binding))
            /\ sync_flag' = TRUE
       ELSE UNCHANGED <<toggle_states, sync_flag>>
    /\ press' = [press EXCEPT !.pc = "done"]
    /\ op' = "handled"
    /\ UNCHANGED <<now, rate_limiter, children>>
    /\ UNCHANGED notToggle

\* handle_event on a release: no arm matches, nothing changes
Release ==
    \E binding \in RunCommandBindings :
        /\ press.pc = "idle"
        /\ press' = [NoPress EXCEPT !.pc = "done", !.binding = binding,
                                     !.before = toggle_states,
                                     !.flag_before = sync_flag]
        /\ op' = "release"
        /\ UNCHANGED <<now, rate_limiter, children, toggle_states, sync_flag>>
        /\ UNCHANGED notToggle

\* a child process exits; nothing in the handler waits for it
ChildExit ==
    \E mine \in BOOLEAN :
        /\ children > 0
        /\ mine => press.child_alive
        /\ ~mine => children > (IF press.child_alive THEN 1 ELSE 0)
        /\ children' = children - 1
        /\ press' = IF mine THEN [press EXCEPT !.child_alive = FALSE] ELSE press
        /\ op' = "child_exit"
        /\ UNCHANGED <<now, rate_limiter, toggle_states, sync_flag>>
        /\ UNCHANGED notToggle

\* the handler has returned; the engine's render pass consumes the flag
PressReturn ==
    /\ press.pc = "done"
    /\ press' = NoPress
    /\ sync_flag' = FALSE
    /\ op' = "returned"
    /\ UNCHANGED <<now, rate_limiter, children, toggle_states>>
    /\ UNCHANGED notToggle

ToggleInit ==
    /\ toggle_states = [k \in {} |-> FALSE]
    /\ children = 0
    /\ press = NoPress

ToggleNext == PressRunCommand \/ PressFlip \/ Release \/ ChildExit \/ PressReturn \/ RateClock

\* ---------------------------------------------------------------------------
\* State manager (state_manager.rs)
\* ---------------------------------------------------------------------------
\* ticks between two periodic polls (20 in the source)
PollTicks == 3

PolledFlags == {"is_muted", "is_mic_muted", "is_playing"}

\* what check_mute_state, check_mic_mute_state and check_playing_state can
\* report: at most one of the three is on
OsStates ==
    {s \in [PolledFlags -> BOOLEAN] : Cardinality({f \in PolledFlags : s[f]}) <= 1}

EmptyMap == [k \in {} |-> FALSE]

\* the keys the plugins' workers write under
LightKey == "10.0.0.5:9123"
ObsKey == "10.0.0.6:4455"
ToggleKey == binding_key([input |-> Button(0), page |-> 0])

\* get_current_state: the three flags from the OS tools, the three maps empty
get_current_state(os) ==
    [is_muted |-> os["is_muted"], is_mic_muted |-> os["is_mic_muted"],
     is_playing |-> os["is_playing"],
     key_lights |-> EmptyMap, toggle_states |-> EmptyMap, obs_states |-> EmptyMap]

\* a faulty variant: is_playing is not compared
state_changed_two(new_state, current) ==
    \/ new_state.is_muted # current.is_muted
    \/ new_state.is_mic_muted # current.is_mic_muted

\* run_state_poller: `let state_changed = ..`
state_changed(new_state, current) ==
    \/ new_state.is_muted # current.is_muted
    \/ new_state.is_mic_muted # current.is_mic_muted
    \/ new_state.is_playing # current.is_playing

\* a faulty variant: the periodic poll comes one tick late
tick_due_late(count) == count > PollTicks

\* `if TICK_COUNT >= 20`
tick_due(count) == count >= PollTicks

StateChangeEvent(s) ==
    [kind |-> "state:change", is_muted |-> s.is_muted, is_mic_muted |-> s.is_mic_muted,
     is_playing |-> s.is_playing, key_lights |-> s.key_lights]

NoPollHist == [committed |-> FALSE]

IdlePoller(pc) == [pc |-> pc, kind |-> "none", new_state |-> get_current_state([f \in PolledFlags |-> FALSE])]

\* request_state_check
RequestStateCheck ==
    /\ CHECK_STATE_NOW' = TRUE
    /\ unserved' = IF unserved = "none" THEN "fresh" ELSE unserved
    /\ poll_hist' = NoPollHist
    /\ op' = "request_state_check"
    /\ UNCHANGED <<os_state, system_state, TICK_COUNT, poller, ticks_since_poll,
                   toggle_states, sync_flag>>
    /\ UNCHANGED notPoller

\* loop top: `let should_check = CHECK_STATE_NOW.swap(false, ..)`
PollerSwap ==
    /\ poller.pc = "top"
    /\ CHECK_STATE_NOW' = FALSE
    /\ poller' = IF CHECK_STATE_NOW THEN [IdlePoller("query") EXCEPT !.kind = "flag"]
                 ELSE IdlePoller("sleep")
    /\ unserved' = IF CHECK_STATE_NOW THEN "none" ELSE unserved
    /\ poll_hist' = NoPollHist
    /\ op' = "poller_swap"
    /\ UNCHANGED <<os_state, system_state, TICK_COUNT, ticks_since_poll,
                   toggle_states, sync_flag>>
    /\ UNCHANGED notPoller

\* `let mut new_state = get_current_state();`, before the lock is taken
PollerQuery ==
    /\ poller.pc = "query"
    /\ poller' = [poller EXCEPT !.pc = "commit", !.new_state = get_current_state(os_state)]
    /\ ticks_since_poll' = IF poller.kind = "tick" THEN 0 ELSE ticks_since_poll
    /\ poll_hist' = NoPollHist
    /\ op' = "poller_query"
    /\ UNCHANGED <<os_state, system_state, CHECK_STATE_NOW, TICK_COUNT, unserved,
                   toggle_states, sync_flag>>
    /\ UNCHANGED notPoller

\* from state.lock() to the end of the poll: copy key_lights, compare, and on a
\* change store new_state, emit state:change and request an image sync
PollerCommit ==
    /\ poller.pc = "commit"
    /\ LET current == system_state
           new_state == [poller.new_state EXCEPT !.key_lights = current.key_lights]
           changed == state_changed(new_state, current)
       IN /\ IF changed
             THEN /\ system_state' = [is_muted |-> new_state.is_muted,
                                      is_mic_muted |-> new_state.is_mic_muted,
                                      is_playing |-> new_state.is_playing,
                                      key_lights |-> new_state.key_lights,
                                      obs_states |-> new_state.obs_states]
                  /\ toggle_states' = new_state.toggle_states
                  /\ sync_flag' = TRUE
             ELSE UNCHANGED <<system_state, toggle_states, sync_flag>>
          /\ poll_hist' = [committed |-> TRUE, kind |-> poller.kind,
                           before |-> current, toggles_before |-> toggle_states,
                           polled |-> poller.new_state,
                           event |-> IF changed THEN Some(StateChangeEvent(new_state))
                                     ELSE None,
                           sync_requested |-> changed]
    /\ poller' = IdlePoller(IF poller.kind = "flag" THEN "sleep" ELSE "top")
    /\ op' = "poller_commit"
    /\ UNCHANGED <<os_state, CHECK_STATE_NOW, TICK_COUNT, unserved, ticks_since_poll>>
    /\ UNCHANGED notPoller

\* std::thread::sleep(check_interval), TICK_COUNT += 1 and the test that follows
PollerSleep ==
    /\ poller.pc = "sleep"
    /\ IF tick_due(TICK_COUNT + 1)
       THEN /\ TICK_COUNT' = 0
            /\ poller' = [IdlePoller("query") EXCEPT !.kind = "tick"]
       ELSE /\ TICK_COUNT' = TICK_COUNT + 1
            /\ poller' = IdlePoller("top")
    /\ unserved' = CASE unserved = "fresh" -> "slept"
                     [] unserved = "slept" -> "late"
                     [] OTHER -> unserved
    /\ ticks_since_poll' = IF ticks_since_poll > PollTicks THEN ticks_since_poll
                           ELSE ticks_since_poll + 1
    /\ poll_hist' = NoPollHist
    /\ op' = "poller_sleep"
    /\ UNCHANGED <<os_state, system_state, CHECK_STATE_NOW, toggle_states, sync_flag>>
    /\ UNCHANGED notPoller

\* the user or another program mutes, unmutes, starts or stops playback
OsChange ==
    /\ \E s \in OsStates \ {os_state} : os_state' = s
    /\ poll_hist' = NoPollHist
    /\ op' = "os_change"
    /\ UNCHANGED <<system_state, CHECK_STATE_NOW, TICK_COUNT, poller, unserved,
                   ticks_since_poll, toggle_states, sync_flag>>
    /\ UNCHANGED notPoller

\* a plugin's worker records the result of a remote action under the lock:
\* elgato/plugin.rs (key_lights.insert), obs/plugin.rs (obs_states entry),
\* flip_toggle_state (toggle_states)
PluginUpdate ==
    /\ \E map \in {"key_lights", "obs_states", "toggle_states"} :
         CASE map = "key_lights" ->
                /\ system_state' = [system_state EXCEPT
                                      !.key_lights = Insert(@, LightKey, TRUE)]
                /\ UNCHANGED toggle_states
           [] map = "obs_states" ->
                /\ system_state' = [system_state EXCEPT
                                      !.obs_states = Insert(@, ObsKey, TRUE)]
                /\ UNCHANGED toggle_states
           [] OTHER ->
                /\ toggle_states' = flip(toggle_states, ToggleKey)
                /\ UNCHANGED system_state
    /\ sync_flag' = TRUE
    /\ poll_hist' = NoPollHist
    /\ op' = "plugin_update"
    /\ UNCHANGED <<os_state, CHECK_STATE_NOW, TICK_COUNT, poller, unserved, ticks_since_poll>>
    /\ UNCHANGED notPoller

PollerInit ==
    /\ os_state = [f \in PolledFlags |-> FALSE]
    /\ system_state = [is_muted |-> FALSE, is_mic_muted |-> FALSE, is_playing |-> FALSE,
                       key_lights |-> EmptyMap, obs_states |-> EmptyMap]
    /\ CHECK_STATE_NOW = FALSE
    /\ TICK_COUNT = 0
    /\ poller = IdlePoller("top")
    /\ poll_hist = NoPollHist
    /\ unserved = "none"
    /\ ticks_since_poll = 0

PollerNext ==
    \/ RequestStateCheck \/ PollerSwap \/ PollerQuery \/ PollerCommit \/ PollerSleep
    \/ OsChange \/ PluginUpdate

\* ---------------------------------------------------------------------------
\* Image sync requests and the event loop's check of the flag (streamdeck.rs)
\* ---------------------------------------------------------------------------
\* requests counted between two checks
MaxSyncRequests == 2

\* the locks whose guards the render pass needs
RenderLocks == {"bindings", "system_state"}

\* what sync_button_images draws: the bindings of the page, and the page
Shown(bs, page) == [bindings |-> page_bindings(bs, page), page |-> page]

NoSyncHist == [taken |-> FALSE, requests |-> 0, renders |-> 0]

\* `if let (Some(bindings), Some(state)) = (bindings, state)` with both taken
\* through lock().ok(): the render is made only if neither lock is poisoned
render_allowed(poison) == poison \cap RenderLocks = {}

\* request_image_sync, by a command that has just changed the bindings under
\* their lock or by a worker that has changed the system state
SyncRequest ==
    /\ \E via \in {"set_binding", "remove_binding", "worker"} :
         /\ via = "set_binding" => "bindings" \notin poisoned
         /\ via = "remove_binding" => "bindings" \notin poisoned
         /\ bindings' =
              CASE via = "set_binding" ->
                     set_binding(bindings, Button(0), 0,
                                 [capability |-> "Mute", button_image |-> FileImage])
                [] via = "remove_binding" -> remove_binding(bindings, Button(0))
                [] OTHER -> bindings
         /\ op' = via
    /\ sync_flag' = TRUE
    /\ unrendered' = TRUE
    /\ requests' = IF requests < MaxSyncRequests THEN requests + 1 ELSE requests
    /\ UNCHANGED <<current_page, poisoned, engine_pc, sync_hist, displayed>>
    /\ UNCHANGED notSync

\* run: try_connect succeeds; the initial image sync, then run_event_loop
EngineConnect ==
    /\ engine_pc = "disconnected"
    /\ engine_pc' = "check"
    /\ IF render_allowed(poisoned)
       THEN displayed' = Some(Shown(bindings, current_page)) /\ unrendered' = FALSE
       ELSE UNCHANGED <<displayed, unrendered>>
    /\ op' = "engine_connect"
    /\ UNCHANGED <<bindings, current_page, sync_flag, poisoned, requests, sync_hist>>
    /\ UNCHANGED notSync

\* run_event_loop: SYNC_IMAGES_FLAG.swap(false)
EngineSwap ==
    /\ engine_pc = "check"
    /\ sync_flag' = FALSE
    /\ sync_hist' = [taken |-> sync_flag, requests |-> requests, renders |-> 0]
    /\ requests' = 0
    /\ engine_pc' = IF sync_flag THEN "render" ELSE "read_input"
    /\ op' = "engine_swap"
    /\ UNCHANGED <<bindings, current_page, poisoned, unrendered, displayed>>
    /\ UNCHANGED notSync

\* the body of the `if`: the three locks, then sync_button_images and
\* sync_lcd_images under the guards
EngineRender ==
    /\ engine_pc = "render"
    /\ IF render_allowed(poisoned)
       THEN /\ displayed' = Some(Shown(bindings, current_page))
            /\ unrendered' = FALSE
            /\ sync_hist' = [sync_hist EXCEPT !.renders = 1]
       ELSE UNCHANGED <<displayed, unrendered, sync_hist>>
    /\ engine_pc' = "read_input"
    /\ op' = "engine_render"
    /\ UNCHANGED <<bindings, current_page, sync_flag, poisoned, requests>>
    /\ UNCHANGED notSync

\* deck.read_input(Some(INPUT_POLL_TIMEOUT)): nothing within the timeout, a
\* swipe that changes the page (it requests a sync itself), or an error
EngineReadInput ==
    /\ engine_pc = "read_input"
    /\ \E input \in {"timeout", "swipe_left", "swipe_right", "error"} :
         LET max_allowed_page == get_max_page(bindings) + 1
             new_page == IF input = "swipe_left"
                         THEN navigate("Left", current_page, max_allowed_page)
                         ELSE IF input = "swipe_right"
                         THEN navigate("Right", current_page, max_allowed_page)
                         ELSE current_page
         IN /\ current_page' = new_page
            /\ IF new_page # current_page
               THEN /\ sync_flag' = TRUE
                    /\ unrendered' = TRUE
                    /\ requests' = IF requests < MaxSyncRequests
                                   THEN requests + 1 ELSE requests
               ELSE UNCHANGED <<sync_flag, unrendered, requests>>
            /\ engine_pc' = IF input = "error" THEN "disconnected" ELSE "check"
    /\ op' = "engine_read_input"
    /\ UNCHANGED <<bindings, poisoned, sync_hist, displayed>>
    /\ UNCHANGED notSync

\* a thread panics while it holds the bindings or the system state
SyncPanic ==
    /\ \E l \in RenderLocks :
         /\ l \notin poisoned
         /\ poisoned' = poisoned \cup {l}
    /\ op' = "panic"
    /\ UNCHANGED <<bindings, current_page, sync_flag, syncVars>>
    /\ UNCHANGED notSync

SyncInit ==
    /\ engine_pc = "disconnected"
    /\ unrendered = FALSE
    /\ requests = 0
    /\ sync_hist = NoSyncHist
    /\ displayed = None

SyncNext ==
    \/ SyncRequest \/ EngineConnect \/ EngineSwap \/ EngineRender \/ EngineReadInput
    \/ SyncPanic

\* ---------------------------------------------------------------------------
\* Event dispatch: from a HID frame to the handlers of the bindings
\* (streamdeck.rs run_event_loop, binding.rs, core/*.rs, plugins/*/plugin.rs)
\* ---------------------------------------------------------------------------
EncoderPress(i) == [kind |-> "EncoderPress", index |-> i]

\* LogicalEvent::Swipe(TouchSwipeEvent { start, end })
TouchSwipeEvent(start, end) == [kind |-> "Swipe", start |-> start, end |-> end]

\* capabilities by the module that handles them
AudioPress == {"Mute", "VolumeUp", "VolumeDown", "MicMute", "MicVolumeUp", "MicVolumeDown"}
AudioDial == {"SystemAudio", "Microphone"}
MediaKeys == {"MediaPlayPause", "MediaNext", "MediaPrevious", "MediaStop"}
Commands == {"RunCommand", "LaunchApp", "OpenURL"}
ObsPress == {"OBSScene", "OBSStream", "OBSRecord", "OBSSourceVisibility",
             "OBSStudioMode", "OBSReplayBuffer", "OBSVirtualCam", "OBSTransition"}

\* a faulty variant: a release counts as a press
is_press_event_any(event) == event.kind \in {"Button", "EncoderPress"}

\* plugins/obs/plugin.rs is_press_event; the guard `if e.pressed` of the
\* Button and EncoderPress arms of the core handlers is the same test
is_press_event(event) ==
    event.kind \in {"Button", "EncoderPress"} /\ event.pressed

\* core/audio.rs handle_event: does an arm other than `_ => false` take it
audio_handle_event(capability, event) ==
    CASE capability \in AudioDial ->
           \/ event.kind = "EncoderPress" /\ is_press_event(event)
           \/ event.kind = "Encoder"
      [] capability \in AudioPress -> is_press_event(event)
      [] OTHER -> FALSE

\* core/media.rs handle_event
media_handle_event(capability, event) ==
    capability \in MediaKeys /\ is_press_event(event)

\* core/commands.rs handle_event
commands_handle_event(capability, event) ==
    capability \in Commands /\ is_press_event(event)

\* plugins/elgato/plugin.rs handle_event: press toggles, rotation is brightness
elgato_handle_event(capability, event) ==
    capability = "ElgatoKeyLight" /\ (is_press_event(event) \/ event.kind = "Encoder")

\* plugins/obs/plugin.rs handle_event
obs_handle_event(capability, event) ==
    \/ capability \in ObsPress /\ is_press_event(event)
    \/ capability = "OBSAudio" /\ (event.kind = "Encoder" \/ is_press_event(event))

\* the handler of the capability's owner: core tries audio, media, commands
plugin_acts(capability, event) ==
    \/ audio_handle_event(capability, event)
    \/ media_handle_event(capability, event)
    \/ commands_handle_event(capability, event)
    \/ elgato_handle_event(capability, event)
    \/ obs_handle_event(capability, event)

Call(event, binding) == [event |-> event, binding |-> binding]

\* handle_logical_event: `for binding in bindings { if !binding.matches(&event)
\* { continue; } ..`: the bindings whose handler the event reaches, in order
RECURSIVE invoked_for(_, _)
invoked_for(event, bs) ==
    IF bs = <<>> THEN <<>>
    ELSE (IF matches(Head(bs), event) THEN <<Call(event, Head(bs))>> ELSE <<>>)
         \o invoked_for(event, Tail(bs))

\* `for event in processor.process_..(..) { handle_logical_event(event, ..) }`
RECURSIVE invoked_all(_, _)
invoked_all(evs, bs) ==
    IF evs = <<>> THEN <<>>
    ELSE invoked_for(Head(evs), bs) \o invoked_all(Tail(evs), bs)

\* the calls in which the handler did something
acted_of(calls) ==
    SelectSeq(calls, LAMBDA c : plugin_acts(c.binding.capability, c.event))

Bound(input, page, capability) == [input |-> input, page |-> page, capability |-> capability]

\* binding lists as a bindings file can hold them: the same input on two
\* pages, two bindings of one input on one page, capabilities on inputs whose
\* events they do not take
DispatchLists ==
    {<<Bound(Button(0), 0, "Mute"), Bound(Button(0), 1, "RunCommand"),
       Bound(Button(1), 0, "OBSStream"), Bound(Button(1), 0, "ElgatoKeyLight"),
       Bound(Encoder(0), 0, "SystemAudio"), Bound(Encoder(0), 1, "MediaNext"),
       Bound(EncoderPress(0), 0, "MediaPlayPause"), Bound(EncoderPress(0), 1, "OBSAudio"),
       Bound(Swipe, 0, "LaunchApp"), Bound(Swipe, 1, "Mute")>>,
     <<Bound(Button(1), 1, "OpenURL"), Bound(Encoder(0), 0, "ElgatoKeyLight"),
       Bound(EncoderPress(0), 0, "VolumeUp"), Bound(Button(0), 0, "SystemAudio")>>}

NoFrame == [kind |-> "none", page |-> 0, prev |-> <<>>, states |-> <<>>, events |-> <<>>,
            direction |-> "None", invoked |-> <<>>, acted |-> <<>>]

Frame(kind, page, prev, states, evs, direction, calls) ==
    [kind |-> kind, page |-> page, prev |-> prev, states |-> states, events |-> evs,
     direction |-> direction, invoked |-> calls, acted |-> acted_of(calls)]

\* startup: the bindings file is loaded before the engine starts
DispatchLoad ==
    /\ op = "Init"
    /\ bindings' \in DispatchLists
    /\ op' = "load_bindings"
    /\ UNCHANGED <<last_buttons, last_encoders, current_page, sync_flag, frame>>
    /\ UNCHANGED notDispatch

\* run_event_loop starts again after a reconnection, with a fresh processor
DispatchConnect ==
    /\ op # "Init"
    /\ last_buttons' = new_processor(last_buttons)
    /\ last_encoders' = new_processor(last_encoders)
    /\ frame' = NoFrame
    /\ op' = "Connect"
    /\ UNCHANGED <<bindings, current_page, sync_flag>>
    /\ UNCHANGED notDispatch

\* StreamDeckInput::ButtonStateChange(states)
FrameButtons ==
    /\ op # "Init"
    /\ \E states \in [1..MaxButtons -> BOOLEAN] :
         LET r == process_buttons(last_buttons, states) IN
           /\ last_buttons' = r.last
           /\ frame' = Frame("ButtonStateChange", current_page, last_buttons, states,
                             r.events, "None",
                             invoked_all(r.events, page_bindings(bindings, current_page)))
    /\ op' = "ButtonStateChange"
    /\ UNCHANGED <<last_encoders, bindings, current_page, sync_flag>>
    /\ UNCHANGED notDispatch

\* StreamDeckInput::EncoderStateChange(states)
FrameEncoderPresses ==
    /\ op # "Init"
    /\ \E states \in [1..MaxEncoders -> BOOLEAN] :
         LET r == process_encoder_presses(last_encoders, states) IN
           /\ last_encoders' = r.last
           /\ frame' = Frame("EncoderStateChange", current_page, last_encoders, states,
                             r.events, "None",
                             invoked_all(r.events, page_bindings(bindings, current_page)))
    /\ op' = "EncoderStateChange"
    /\ UNCHANGED <<last_buttons, bindings, current_page, sync_flag>>
    /\ UNCHANGED notDispatch

\* StreamDeckInput::EncoderTwist(deltas)
FrameTwist ==
    /\ op # "Init"
    /\ \E deltas \in [1..MaxEncoders -> Twists] :
         LET evs == process_encoders(deltas) IN
           frame' = Frame("EncoderTwist", current_page, <<>>, deltas, evs, "None",
                          invoked_all(evs, page_bindings(bindings, current_page)))
    /\ op' = "EncoderTwist"
    /\ UNCHANGED <<last_buttons, last_encoders, bindings, current_page, sync_flag>>
    /\ UNCHANGED notDispatch

\* StreamDeckInput::TouchScreenSwipe(start, end): page navigation if the swipe
\* classifies, handle_logical_event otherwise
FrameSwipe ==
    /\ op # "Init"
    /\ \E start \in Points, end \in Points :
         LET event == TouchSwipeEvent(start, end)
             direction == detect_swipe_direction(start, end)
             max_allowed_page == get_max_page(bindings) + 1
             new_page == navigate(direction, current_page, max_allowed_page)
         IN IF direction # "None"
            THEN /\ current_page' = new_page
                 /\ sync_flag' = (sync_flag \/ new_page # current_page)
                 /\ frame' = Frame("TouchScreenSwipe", current_page, <<>>, <<start, end>>,
                                   <<event>>, direction, <<>>)
            ELSE /\ UNCHANGED <<current_page, sync_flag>>
                 /\ frame' = Frame("TouchScreenSwipe", current_page, <<>>, <<start, end>>,
                                   <<event>>, direction,
                                   invoked_for(event, page_bindings(bindings, current_page)))
    /\ op' = "TouchScreenSwipe"
    /\ UNCHANGED <<last_buttons, last_encoders, bindings>>
    /\ UNCHANGED notDispatch

DispatchInit == frame = NoFrame

DispatchNext ==
    \/ DispatchLoad \/ DispatchConnect \/ FrameButtons \/ FrameEncoderPresses
    \/ FrameTwist \/ FrameSwipe

\* ---------------------------------------------------------------------------
\* A press on a Key Light binding (plugins/elgato/plugin.rs, client.rs)
\* ---------------------------------------------------------------------------
KeyLightActions == {"Toggle", "On", "Off"}

\* what the light can be in when the button is pressed
LightStates == [on : BOOLEAN, brightness : {0, 50, 100}]

\* ElgatoPlugin::handle_event: both press arms bind `{ ip, port, .. }` and
\* call handle_key_light_button(ip, *port, &KeyLightAction::Toggle, ..)
action_passed(action) == "Toggle"

\* client::toggle, turn_on, turn_off: the state set_state is called with,
\* from the state get_state returned
action_request(action, current) ==
    CASE action = "Toggle" ->
           [on |-> ~current.on,
            brightness |-> IF ~current.on /\ current.brightness = 0
                           THEN 100 ELSE current.brightness]
      [] action = "On" ->
           [on |-> TRUE,
            brightness |-> IF current.brightness = 0 THEN 100 ELSE current.brightness]
      [] OTHER -> [on |-> FALSE, brightness |-> 0]

IdleLightPress ==
    [pc |-> "idle", configured |-> "Toggle", issued |-> "none",
     before |-> [on |-> FALSE, brightness |-> 0], light |-> [on |-> FALSE, brightness |-> 0],
     action_ok |-> FALSE, read |-> None, key_lights |-> None, cached |-> None,
     sync_requested |-> FALSE]

\* handle_event on a pressed Button or EncoderPress event: the worker is spawned
LightPress ==
    /\ light_press.pc = "idle"
    /\ \E action \in KeyLightActions, state \in LightStates,
          stored \in {None, Some([on |-> FALSE, brightness |-> 0])} :
         light_press' = [IdleLightPress EXCEPT
                           !.pc = "action", !.configured = action,
                           !.issued = action_passed(action),
                           !.before = state, !.light = state,
                           !.key_lights = stored, !.cached = stored]
    /\ op' = "light_press"
    /\ UNCHANGED notLightPress

\* the worker's `match action`: get_state (not for Off) and set_state, each
\* of which can fail after its retries
LightAction ==
    /\ light_press.pc = "action"
    /\ \E get_ok \in BOOLEAN, put_ok \in BOOLEAN :
         LET ok == (light_press.issued = "Off" \/ get_ok) /\ put_ok IN
         light_press' = [light_press EXCEPT
                           !.pc = "reread", !.action_ok = ok,
                           !.light = IF ok THEN action_request(light_press.issued, @)
                                     ELSE @]
    /\ op' = "light_action"
    /\ UNCHANGED notLightPress

\* client::get_state after the action; on Ok the state goes into
\* system_state.key_lights and into the controller's cache
LightReread ==
    /\ light_press.pc = "reread"
    /\ \E get_ok \in BOOLEAN :
         light_press' =
            IF get_ok
            THEN [light_press EXCEPT !.pc = "sync", !.read = Some(light_press.light),
                                     !.key_lights = Some(light_press.light),
                                     !.cached = Some(light_press.light)]
            ELSE [light_press EXCEPT !.pc = "sync"]
    /\ op' = "light_reread"
    /\ UNCHANGED notLightPress

\* request_image_sync at the end of the worker
LightSync ==
    /\ light_press.pc = "sync"
    /\ light_press' = [light_press EXCEPT !.pc = "done", !.sync_requested = TRUE]
    /\ op' = "light_sync"
    /\ UNCHANGED notLightPress

\* the next press
LightReturn ==
    /\ light_press.pc = "done"
    /\ light_press' = IdleLightPress
    /\ op' = "light_return"
    /\ UNCHANGED notLightPress

LightPressInit == light_press = IdleLightPress

LightPressNext == LightPress \/ LightAction \/ LightReread \/ LightSync \/ LightReturn

\* ---------------------------------------------------------------------------
\* Button images of a render pass (streamdeck.rs, button_renderer.rs)
\* ---------------------------------------------------------------------------

\* keys of the device (kind.key_count())
PanelKeys == 2
\* pages bindings are placed on
PanelPages == {0, 1}

\* Option<String> of button_image and of button_image_alt
DefaultImages == {None, Some("mute.png")}
AltImages == {None, Some(""), Some("muted.png")}

\* capabilities on the keys: one that follows state.is_muted, one without an
\* active state
PanelCapabilities == {"Mute", "OpenURL"}

PanelBindings ==
    [index : 0..(PanelKeys - 1), page : PanelPages, capability : PanelCapabilities,
     button_image : DefaultImages, button_image_alt : AltImages]

Cleared == "cleared"

\* get_effective_image: `let is_active = match &binding.capability`
image_active(binding, is_muted) ==
    CASE binding.capability = "Mute" -> is_muted
      [] OTHER -> FALSE

\* get_effective_image: the alt image when active and Some, else the default
get_effective_image(binding, is_muted) ==
    IF image_active(binding, is_muted) /\ binding.button_image_alt # None
    THEN binding.button_image_alt
    ELSE binding.button_image

\* ButtonRenderer::render_binding: Ok(None) without an image or with an empty
\* one, else the image loaded from the source
render_binding(button_image) ==
    IF button_image # None /\ button_image[1] # "" THEN Some(button_image[1]) ELSE None

\* sync_button_images: what one binding puts on its key
key_image(binding, is_muted) ==
    LET img == render_binding(get_effective_image(binding, is_muted)) IN
    IF img = None THEN Cleared ELSE img[1]

\* sync_button_images: the bindings of the current page in list order, a later
\* one overwriting an earlier one on the same key; keys never set are cleared
sync_button_images(bs, is_muted, page) ==
    [key \in 0..(PanelKeys - 1) |->
        LET on_key == {i \in 1..Len(bs) : bs[i].page = page /\ bs[i].index = key} IN
        IF on_key = {} THEN Cleared
        ELSE key_image(bs[CHOOSE i \in on_key : \A j \in on_key : j <= i], is_muted)]

NoPanel ==
    [bindings |-> <<>>, is_muted |-> FALSE, page |-> 0, rendered |-> FALSE,
     keys |-> [key \in 0..(PanelKeys - 1) |-> Cleared]]

\* a binding is loaded from bindings.toml or set from the UI; an input has at
\* most one binding
PanelBind ==
    /\ \E binding \in PanelBindings :
         /\ \A i \in 1..Len(panel.bindings) : panel.bindings[i].index # binding.index
         /\ panel' = [panel EXCEPT !.bindings = Append(@, binding), !.rendered = FALSE]
    /\ op' = "panel_bind"
    /\ UNCHANGED notPanel

\* the state manager stores a changed mute state
PanelMute ==
    /\ panel' = [panel EXCEPT !.is_muted = ~@, !.rendered = FALSE]
    /\ op' = "panel_mute"
    /\ UNCHANGED notPanel

\* a swipe changes the page
PanelPage ==
    /\ \E page \in PanelPages \ {panel.page} :
         panel' = [panel EXCEPT !.page = page, !.rendered = FALSE]
    /\ op' = "panel_page"
    /\ UNCHANGED notPanel

\* the engine's render pass: sync_button_images with the state and page it locked
PanelSync ==
    /\ ~panel.rendered
    /\ panel' = [panel EXCEPT !.rendered = TRUE,
                              !.keys = sync_button_images(panel.bindings, panel.is_muted,
                                                          panel.page)]
    /\ op' = "panel_sync"
    /\ UNCHANGED notPanel

PanelInit == panel = NoPanel

PanelNext == PanelBind \/ PanelMute \/ PanelPage \/ PanelSync

\* ---------------------------------------------------------------------------
\* Button indices of a render pass (streamdeck.rs sync_button_images)
\* ---------------------------------------------------------------------------
\* InputRef::Button's index is a usize and nothing on the way from bindings.toml
\* or set_binding to the render pass bounds it. The pass casts it to u8 for the
\* key and uses it uncast as the position in buttons_set.

\* values of a u8 (`*index as u8` keeps the low eight bits)
U8_RANGE == 256
\* keys of the device (kind.key_count())
WideKeys == 2
\* pages bindings are placed on; the pass runs for page 0
WidePages == {0, 1}

\* indices at and around the key count and at and around each multiple of the
\* u8 range
WideIndices ==
    {0, WideKeys - 1, WideKeys, U8_RANGE - 1, U8_RANGE, U8_RANGE + WideKeys - 1,
     U8_RANGE + WideKeys, 2 * U8_RANGE + WideKeys - 1}

\* what rendering and the device do for a binding: an image is rendered and
\* set, nothing is configured and the key is cleared, rendering fails, or the
\* image is rendered and set_button_image fails
WideOutcomes == {"image", "none", "render_error", "set_error"}

WideBindings == [index : WideIndices, page : WidePages, outcome : WideOutcomes]

\* a key nothing has written in this pass
Untouched == [shown |-> "stale", by |-> -1]

\* `let key = *index as u8`
as_u8(index) == index % U8_RANGE

\* sync_button_images from binding i of the list on: keys are the images sent
\* so far with the index of the binding that sent them, set is buttons_set.
\* `buttons_set[*index] = true` past the end of the vector panics and the pass
\* ends there; otherwise the keys never set are cleared at the end.
RECURSIVE sync_from(_, _, _, _)
sync_from(bs, i, keys, set) ==
    IF i > Len(bs)
    THEN [keys |-> [key \in 0..(WideKeys - 1) |->
                       IF key \in set THEN keys[key]
                       ELSE [shown |-> "cleared", by |-> -1]],
          panicked |-> FALSE]
    ELSE LET b == bs[i]
             key == as_u8(b.index)
             sent == [keys EXCEPT ![key] =
                         [shown |-> IF b.outcome = "image" THEN "image" ELSE "cleared",
                          by |-> b.index]]
         IN  IF b.page # 0 \/ key >= WideKeys \/ b.outcome \in {"render_error", "set_error"}
             THEN sync_from(bs, i + 1, keys, set)
             ELSE IF b.index >= WideKeys
             THEN [keys |-> sent, panicked |-> TRUE]
             ELSE sync_from(bs, i + 1, sent, set \cup {b.index})

NoWide ==
    [bindings |-> <<>>, rendered |-> FALSE, panicked |-> FALSE,
     keys |-> [key \in 0..(WideKeys - 1) |-> Untouched]]

\* a binding is loaded from bindings.toml or set from the UI; an input has at
\* most one binding on a page
WideBind ==
    /\ ~wide.panicked
    /\ Len(wide.bindings) < 2
    /\ \E binding \in WideBindings :
         /\ \A i \in 1..Len(wide.bindings) :
              wide.bindings[i].index # binding.index \/ wide.bindings[i].page # binding.page
         /\ wide' = [wide EXCEPT !.bindings = Append(@, binding), !.rendered = FALSE]
    /\ op' = "wide_bind"
    /\ UNCHANGED notWide

\* the engine's render pass
WideSync ==
    /\ ~wide.panicked /\ ~wide.rendered
    /\ LET pass == sync_from(wide.bindings, 1,
                             [key \in 0..(WideKeys - 1) |-> Untouched], {})
       IN wide' = [wide EXCEPT !.rendered = TRUE, !.keys = pass.keys,
                               !.panicked = pass.panicked]
    /\ op' = "wide_sync"
    /\ UNCHANGED notWide

\* the application is started again after the engine thread died
WideRestart ==
    /\ wide.panicked
    /\ wide' = NoWide
    /\ op' = "wide_restart"
    /\ UNCHANGED notWide

WideInit == wide = NoWide

WideNext == WideBind \/ WideSync \/ WideRestart

\* ---------------------------------------------------------------------------
\* Lock nesting (streamdeck.rs, key_light_controller.rs, plugin/registry.rs,
\* state_manager.rs, commands.rs, image_cache.rs)
\* ---------------------------------------------------------------------------
\* Every lock is taken as exclusive; the registry's RwLocks are read-locked by
\* get_plugins and write-locked by set_plugin_enabled.

NestThreads == {"engine", "state_manager", "worker", "dispatch", "command"}

Lock(lock) == [do |-> "acquire", lock |-> lock]
Unlock(lock) == [do |-> "release", lock |-> lock]

\* the lock steps of a routine, in program order; a guard bound to a local is
\* released at the end of its block, a temporary at the end of its statement
Program(routine) ==
    CASE routine = "render_pass" ->
           <<Lock("bindings"), Lock("system_state"),
             Lock("current_page"), Unlock("current_page"),
             Lock("IMAGE_CACHE"), Unlock("IMAGE_CACHE"),
             Unlock("system_state"), Unlock("bindings")>>
      [] routine = "snapshot_bindings" ->
           <<Lock("bindings"), Unlock("bindings"),
             Lock("current_page"), Unlock("current_page")>>
      [] routine = "store_device_info" ->
           <<Lock("device_info"), Unlock("device_info")>>
      [] routine = "poll" ->
           <<Lock("system_state"), Unlock("system_state")>>
      [] routine = "worker_check" ->
           <<Lock("has_pending"), Unlock("has_pending")>>
      [] routine = "worker_collect" ->
           <<Lock("pending"), Lock("has_pending"), Unlock("has_pending"),
             Unlock("pending")>>
      [] routine = "worker_write_back" ->
           <<Lock("pending"), Unlock("pending")>>
      [] routine = "queue_brightness_delta" ->
           <<Lock("pending"), Unlock("pending"),
             Lock("has_pending"), Unlock("has_pending")>>
      [] routine = "flip_toggle_state" ->
           <<Lock("system_state"), Unlock("system_state")>>
      [] routine = "set_binding" ->
           <<Lock("bindings"), Unlock("bindings")>>
      [] routine = "get_device_info" ->
           <<Lock("device_info"), Unlock("device_info")>>
      [] routine = "get_plugins" ->
           <<Lock("plugins"), Lock("enabled"), Unlock("enabled"),
             Unlock("plugins")>>
      [] routine = "set_plugin_enabled" ->
           <<Lock("enabled"), Unlock("enabled")>>
      [] OTHER -> <<>>

\* what each thread runs
Routines(t) ==
    CASE t = "engine" -> {"render_pass", "snapshot_bindings", "store_device_info"}
      [] t = "state_manager" -> {"poll"}
      [] t = "worker" -> {"worker_check", "worker_collect", "worker_write_back"}
      [] t = "dispatch" -> {"queue_brightness_delta", "flip_toggle_state"}
      [] OTHER -> {"set_binding", "get_device_info", "get_plugins", "set_plugin_enabled"}

\* the locks a thread holds after the first n steps of its routine
Held(t) ==
    LET prog == Program(nest[t].routine) IN
    {prog[i].lock : i \in {i \in 1..nest[t].at :
        /\ prog[i].do = "acquire"
        /\ \A j \in (i + 1)..nest[t].at : prog[j] # Unlock(prog[i].lock)}}

\* the step a thread takes next, <<>> when it runs no routine or has finished it
NextStep(t) ==
    LET prog == Program(nest[t].routine) IN
    IF nest[t].at < Len(prog) THEN <<prog[nest[t].at + 1]>> ELSE <<>>

\* the lock a thread is about to acquire is held by another thread
BlockedBy(t, u) ==
    /\ u # t /\ NextStep(t) # <<>>
    /\ NextStep(t)[1].do = "acquire" /\ NextStep(t)[1].lock \in Held(u)

NestIdle == [routine |-> "none", at |-> 0]

\* a thread enters one of its routines
NestStart ==
    /\ \E t \in NestThreads : \E routine \in Routines(t) :
         /\ nest[t] = NestIdle
         /\ nest' = [nest EXCEPT ![t] = [routine |-> routine, at |-> 0]]
    /\ op' = "nest_start"
    /\ UNCHANGED notNest

\* lock(): returns once no other thread holds the lock
NestAcquire ==
    /\ \E t \in NestThreads :
         /\ NextStep(t) # <<>> /\ NextStep(t)[1].do = "acquire"
         /\ \A u \in NestThreads : ~BlockedBy(t, u)
         /\ nest' = [nest EXCEPT ![t].at = @ + 1]
    /\ op' = "nest_acquire"
    /\ UNCHANGED notNest

\* a guard is dropped; with its last guard the routine is over
NestRelease ==
    /\ \E t \in NestThreads :
         /\ NextStep(t) # <<>> /\ NextStep(t)[1].do = "release"
         /\ nest' = [nest EXCEPT ![t] =
                       IF @.at + 1 = Len(Program(@.routine)) THEN NestIdle
                       ELSE [@ EXCEPT !.at = @ + 1]]
    /\ op' = "nest_release"
    /\ UNCHANGED notNest

NestInit == nest = [t \in NestThreads |-> NestIdle]

NestNext == NestStart \/ NestAcquire \/ NestRelease

\* ---------------------------------------------------------------------------
\* Image cache (image_cache.rs)
\* ---------------------------------------------------------------------------

\* MAX_CACHE_ENTRIES, the capacity of the LruCache: 100 in the source, scaled
\* down so that a full cache is reached
MAX_CACHE_ENTRIES == 2
\* URL_CACHE_TTL, in milliseconds
URL_CACHE_TTL == 300000
\* step of the clock and the number of steps it takes
CacheTick == 200000
MaxCacheTicks == 2
\* highest modification time the icon file takes
MaxMtime == 1
\* images are told apart by a number
MaxImage == 1

\* a cache key: a source, followed by "@<size>" when load_cached_with_color
\* built it
CacheKey(source, suffix) == [scheme |-> source.scheme, path |-> source.path, suffix |-> suffix]

\* the keys the unit tests pass to get and put
RawKeys == {CacheKey(UrlImage, ""), CacheKey(FileImage, "")}

\* format!("{}@{}", source, target_size)
cache_key(source) == CacheKey(source, "@72")

\* std::fs::metadata(key).ok().and_then(|m| m.modified().ok()): the key is
\* the path looked up, and only the icon file itself exists
metadata_modified(key, f) ==
    IF key.scheme = "file" /\ key.suffix = "" /\ f.readable THEN Some(f.mtime) ELSE None


\* LruCache::peek
peek(es, key) == SelectSeq(es, LAMBDA e : e.key = key)

\* LruCache::pop
pop(es, key) == SelectSeq(es, LAMBDA e : e.key # key)

\* LruCache::put: replace or insert as most recently used, dropping the least
\* recently used entry of a full cache
lru_put(es, entry) ==
    LET rest == pop(es, entry.key)
        kept == IF Len(rest) >= MAX_CACHE_ENTRIES THEN Tail(rest) ELSE rest
    IN  Append(kept, entry)

\* a faulty variant: the validity check's peek is all get does
cache_get_peek(es, key, t, f) ==
    LET found == peek(es, key) IN
    IF found = <<>> THEN [entries |-> es, result |-> None]
    ELSE [entries |-> es, result |-> Some(found[1].image)]

\* a faulty variant: an expired entry is reported missing but stays cached
cache_get_keep(es, key, t, f) ==
    LET found == peek(es, key) IN
    IF found = <<>> THEN [entries |-> es, result |-> None]
    ELSE IF is_url(key) /\ t - found[1].cached_at > URL_CACHE_TTL
         THEN [entries |-> es, result |-> None]
         ELSE [entries |-> Append(pop(es, key), found[1]), result |-> Some(found[1].image)]

\* ImageCache::get: the cache after the call and what it returns
cache_get(es, key, t, f) ==
    LET found == peek(es, key) IN
    IF found = <<>> THEN [entries |-> es, result |-> None]
    ELSE LET entry == found[1]
             current_mtime == metadata_modified(key, f)
             invalid ==
                 IF is_url(key)
                 THEN t - entry.cached_at > URL_CACHE_TTL
                 ELSE /\ entry.file_mtime # None
                      /\ current_mtime # None
                      /\ current_mtime # entry.file_mtime
         IN  IF invalid
             THEN [entries |-> pop(es, key), result |-> None]
             ELSE [entries |-> Append(pop(es, key), entry), result |-> Some(entry.image)]

\* ImageCache::put
cache_put(es, key, image, t, f) ==
    lru_put(es, [key |-> key, image |-> image, cached_at |-> t,
                 file_mtime |-> IF is_url(key) THEN None ELSE metadata_modified(key, f)])

\* the order of last use after a call that used key (used) or did not
use_order(rec, es, key, used) ==
    LET present == {es[i].key : i \in 1..Len(es)}
        others == SelectSeq(rec, LAMBDA k : k \in present /\ k # key)
    IN  IF key \in present /\ used THEN Append(others, key)
        ELSE SelectSeq(rec, LAMBDA k : k \in present)

CacheOp(kind, key, image, result) ==
    [kind |-> kind, key |-> key, image |-> image, result |-> result,
     before |-> entries, lru |-> IF recency = <<>> THEN None ELSE Some(Head(recency)),
     at |-> now, file |-> fs]

\* ImageCache::get as the unit tests call it
CacheGet ==
    \E key \in RawKeys :
        LET g == cache_get(entries, key, now, fs) IN
        /\ entries' = g.entries
        /\ recency' = use_order(recency, g.entries, key, g.result # None)
        /\ cache_op' = CacheOp("get", key, 0, g.result)
        /\ op' = "cache_get"
        /\ UNCHANGED <<now, fs>>
        /\ UNCHANGED notCache

\* ImageCache::put as the unit tests call it
CachePut ==
    \E key \in RawKeys, image \in 0..MaxImage :
        LET es == cache_put(entries, key, image, now, fs) IN
        /\ entries' = es
        /\ recency' = use_order(recency, es, key, TRUE)
        /\ cache_op' = CacheOp("put", key, image, None)
        /\ op' = "cache_put"
        /\ UNCHANGED <<now, fs>>
        /\ UNCHANGED notCache

\* load_cached_with_color: get under the key source@size; on a miss load the
\* image (the file's content is told by its modification time) and put it
LoadCachedWithColor ==
    \E source \in {UrlImage, FileImage}, load_ok \in BOOLEAN :
        LET key == cache_key(source)
            g == cache_get(entries, key, now, fs)
            loaded == IF is_url(source) THEN 0 ELSE fs.mtime
            can_load == load_ok /\ (is_url(source) \/ fs.readable)
            es == IF g.result # None \/ ~can_load THEN g.entries
                  ELSE cache_put(g.entries, key, loaded, now, fs)
        IN  /\ entries' = es
            /\ recency' = use_order(recency, es, key, g.result # None \/ can_load)
            /\ cache_op' = IF g.result # None THEN CacheOp("load_hit", key, loaded, g.result)
                           ELSE IF can_load THEN CacheOp("load_put", key, loaded, Some(loaded))
                           ELSE CacheOp("load_err", key, loaded, None)
            /\ op' = "load_cached_with_color"
            /\ UNCHANGED <<now, fs>>
            /\ UNCHANGED notCache

\* the icon file is rewritten
FileModified ==
    /\ fs.mtime < MaxMtime
    /\ fs' = [fs EXCEPT !.mtime = fs.mtime + 1]
    /\ cache_op' = CacheOp("file_modified", CacheKey(FileImage, ""), 0, None)
    /\ op' = "file_modified"
    /\ UNCHANGED <<now, entries, recency>>
    /\ UNCHANGED notCache

\* the icon file becomes unreadable (removed, permissions) or readable again
FileReadable ==
    /\ fs' = [fs EXCEPT !.readable = ~fs.readable]
    /\ cache_op' = CacheOp("file_readable", CacheKey(FileImage, ""), 0, None)
    /\ op' = "file_readable"
    /\ UNCHANGED <<now, entries, recency>>
    /\ UNCHANGED notCache

\* time passes between cache calls
CacheClock ==
    /\ now < MaxCacheTicks * CacheTick
    /\ now' = now + CacheTick
    /\ cache_op' = CacheOp("clock", CacheKey(FileImage, ""), 0, None)
    /\ op' = "cache_clock"
    /\ UNCHANGED <<entries, fs, recency>>
    /\ UNCHANGED notCache

\* ImageCache::new, with the icon file present
CacheInit ==
    /\ entries = <<>>
    /\ fs = [mtime |-> 0, readable |-> TRUE]
    /\ recency = <<>>
    /\ cache_op = [kind |-> "none", key |-> CacheKey(FileImage, ""), image |-> 0,
                   result |-> None, before |-> <<>>, lru |-> None, at |-> 0,
                   file |-> [mtime |-> 0, readable |-> TRUE]]

CacheNext ==
    \/ CacheGet \/ CachePut \/ LoadCachedWithColor
    \/ FileModified \/ FileReadable \/ CacheClock

\* ---------------------------------------------------------------------------
\* Connection loop of the HID engine (streamdeck.rs: run, try_connect) and
\* the hot-plug monitor (hotplug.rs)
\* ---------------------------------------------------------------------------

\* RECONNECT_INTERVAL, in milliseconds
RECONNECT_INTERVAL == 2000
\* step of the clock while the engine sleeps
LinkTick == 100
\* since_plug stops counting here
MaxSincePlug == 2200

\* try_connect: with a device listed and StreamDeck::connect succeeding, store
\* the device info, emit connected=true and enter the event loop; otherwise
\* (no device, or connect fails) fall through to the sleep
TryConnect ==
    \E connect_ok \in BOOLEAN :
        /\ link_pc = "connect"
        /\ IF device_present /\ connect_ok
           THEN /\ device_info' = Some("model")
                /\ conn_events' = Push2(conn_events, TRUE)
                /\ link_pc' = "loop"
                /\ UNCHANGED sleep_left
           ELSE /\ link_pc' = "sleep"
                /\ sleep_left' = RECONNECT_INTERVAL
                /\ UNCHANGED <<device_info, conn_events>>
        /\ op' = "try_connect"
        /\ UNCHANGED <<device_present, hotplug_flag, since_plug>>
        /\ UNCHANGED notLink

\* run_event_loop: deck.read_input returns an input and the loop goes on, or
\* an error (always, once the device is gone) and the loop returns
ReadInput ==
    \E read_ok \in BOOLEAN :
        /\ link_pc = "loop"
        /\ read_ok => device_present
        /\ link_pc' = IF read_ok THEN "loop" ELSE "disconnected"
        /\ op' = IF read_ok THEN "read_input" ELSE "read_error"
        /\ UNCHANGED <<device_present, device_info, hotplug_flag, sleep_left,
                       conn_events, since_plug>>
        /\ UNCHANGED notLink

\* a faulty variant: the disconnect is not announced
EmitDisconnected_silent ==
    /\ link_pc = "disconnected"
    /\ link_pc' = "clear"
    /\ op' = "emit_disconnected"
    /\ UNCHANGED <<device_present, device_info, hotplug_flag, sleep_left, since_plug,
                   conn_events>>
    /\ UNCHANGED notLink

\* run, after run_event_loop has returned: emit_connection_status(false)
EmitDisconnected ==
    /\ link_pc = "disconnected"
    /\ conn_events' = Push2(conn_events, FALSE)
    /\ link_pc' = "clear"
    /\ op' = "emit_disconnected"
    /\ UNCHANGED <<device_present, device_info, hotplug_flag, sleep_left, since_plug>>
    /\ UNCHANGED notLink

\* run: *state = None, then the sleep begins
ClearDeviceInfo ==
    /\ link_pc = "clear"
    /\ device_info' = None
    /\ link_pc' = "sleep"
    /\ sleep_left' = RECONNECT_INTERVAL
    /\ op' = "clear_device_info"
    /\ UNCHANGED <<device_present, hotplug_flag, conn_events, since_plug>>
    /\ UNCHANGED notLink

\* time passes while the engine is in thread::sleep(RECONNECT_INTERVAL)
LinkClock ==
    /\ link_pc = "sleep"
    /\ sleep_left > 0
    /\ sleep_left' = sleep_left - LinkTick
    /\ since_plug' = IF hotplug_flag /\ since_plug < MaxSincePlug
                     THEN since_plug + LinkTick ELSE since_plug
    /\ op' = "sleeping"
    /\ UNCHANGED <<link_pc, device_present, device_info, hotplug_flag, conn_events>>
    /\ UNCHANGED notLink

\* the sleep is over: back to the top of the outer loop
WakeUp ==
    /\ link_pc = "sleep"
    /\ sleep_left <= 0
    /\ link_pc' = "connect"
    /\ op' = "wake_up"
    /\ UNCHANGED <<device_present, device_info, hotplug_flag, sleep_left,
                   conn_events, since_plug>>
    /\ UNCHANGED notLink

\* the device is pulled; the monitor only logs the Remove event
Unplug ==
    /\ device_present
    /\ device_present' = FALSE
    /\ op' = "unplug"
    /\ UNCHANGED <<link_pc, device_info, hotplug_flag, sleep_left, conn_events, since_plug>>
    /\ UNCHANGED notLink

\* the device is plugged in: run_monitor_loop stores true in the flag
Replug ==
    /\ ~device_present
    /\ device_present' = TRUE
    /\ hotplug_flag' = TRUE
    /\ since_plug' = 0
    /\ op' = "replug"
    /\ UNCHANGED <<link_pc, device_info, sleep_left, conn_events>>
    /\ UNCHANGED notLink

LinkInit ==
    /\ link_pc = "connect"
    /\ device_present = FALSE
    /\ device_info = None
    /\ hotplug_flag = FALSE
    /\ sleep_left = 0
    /\ conn_events = <<>>
    /\ since_plug = 0

\* the steps of the engine thread
LinkEngine ==
    \/ TryConnect \/ ReadInput \/ EmitDisconnected \/ ClearDeviceInfo
    \/ LinkClock \/ WakeUp

LinkNext == LinkEngine \/ Unplug \/ Replug

\* ---------------------------------------------------------------------------
\* Bindings file (config.rs: save_bindings, load_bindings)
\* ---------------------------------------------------------------------------

\* longest binding list saved
MaxSaved == 2

\* bindings as the file holds them: input, page and one of the optional fields
ConfigBindings ==
    { [input |-> Button(0), page |-> 0, label |-> None],
      [input |-> Button(0), page |-> 1, label |-> Some("Mute")],
      [input |-> Swipe, page |-> 0, label |-> None] }

\* binding lists with unique (page, input) pairs
ConfigLists ==
    { s \in UNION {[1..n -> ConfigBindings] : n \in 0..MaxSaved} :
        \A i, j \in 1..Len(s) : i # j => s[i] # s[j] }

\* default_bindings()
default_bindings == << [input |-> [kind |-> "Encoder", index |-> 0], page |-> 0, label |-> None] >>

\* Serialize for Binding: a table without the optional fields that are None
\* (skip_serializing_if = "Option::is_none")
to_toml(b) ==
    IF b.label = None
    THEN [input |-> b.input, page |-> b.page]
    ELSE [input |-> b.input, page |-> b.page, label |-> b.label[1]]

\* Deserialize for Binding: page defaults to 0, an absent Option is None
from_toml(t) ==
    [input |-> t.input,
     page |-> IF "page" \in DOMAIN t THEN t.page ELSE 0,
     label |-> IF "label" \in DOMAIN t THEN Some(t.label) ELSE None]

\* toml::to_string_pretty(&Config { version, bindings })
serialize(bs) == [valid |-> TRUE, version |-> 1, bindings |-> [i \in 1..Len(bs) |-> to_toml(bs[i])]]

\* a file cut short while it was written
Truncated == [valid |-> FALSE, version |-> 0, bindings |-> <<>>]

Ok(bs) == [ok |-> TRUE, bindings |-> bs]
Err == [ok |-> FALSE, bindings |-> <<>>]

\* load_from_path on a file that exists
load_from_path(doc) ==
    IF doc.valid
    THEN Ok([i \in 1..Len(doc.bindings) |-> from_toml(doc.bindings[i])])
    ELSE Err

\* a faulty variant: a missing main file means defaults
load_bindings_no_bak(f) ==
    IF f.main = None THEN Ok(default_bindings) ELSE load_from_path(f.main[1])

\* load_bindings: main file, else backup, else defaults
load_bindings(f) ==
    IF f.main = None
    THEN IF f.bak # None THEN load_from_path(f.bak[1]) ELSE Ok(default_bindings)
    ELSE IF load_from_path(f.main[1]).ok THEN load_from_path(f.main[1])
         ELSE IF f.bak # None THEN load_from_path(f.bak[1]) ELSE Err

IdleSaver == [pc |-> "idle", bindings |-> <<>>]

\* save_bindings, first step: fs::write of the .tmp file, which fails part-way
\* when write_ok is false
SaveWriteTmp ==
    \E bs \in ConfigLists, write_ok \in BOOLEAN :
        /\ saver.pc = "idle"
        /\ files' = [files EXCEPT !.tmp = IF write_ok THEN Some(serialize(bs))
                                          ELSE Some(Truncated)]
        /\ saver' = IF write_ok THEN [pc |-> "written", bindings |-> bs] ELSE IdleSaver
        /\ op' = "write_tmp"
        /\ UNCHANGED <<committed, load_result>>
        /\ UNCHANGED notConfig

\* save_bindings: if the main file exists, remove the old backup
SaveRemoveBak ==
    /\ saver.pc = "written"
    /\ IF files.main = None
       THEN /\ saver' = [saver EXCEPT !.pc = "backed_up"]
            /\ UNCHANGED files
       ELSE /\ saver' = [saver EXCEPT !.pc = "bak_removed"]
            /\ files' = [files EXCEPT !.bak = None]
    /\ op' = "remove_bak"
    /\ UNCHANGED <<committed, load_result>>
    /\ UNCHANGED notConfig

\* save_bindings: rename the main file to .bak
SaveRenameToBak ==
    /\ saver.pc = "bak_removed"
    /\ files' = [files EXCEPT !.bak = files.main, !.main = None]
    /\ saver' = [saver EXCEPT !.pc = "backed_up"]
    /\ op' = "rename_to_bak"
    /\ UNCHANGED <<committed, load_result>>
    /\ UNCHANGED notConfig

\* save_bindings: rename .tmp to the main file and return Ok
SaveRenameTmp ==
    /\ saver.pc = "backed_up"
    /\ files' = [files EXCEPT !.main = files.tmp, !.tmp = None]
    /\ saver' = IdleSaver
    /\ committed' = Some(saver.bindings)
    /\ op' = "rename_tmp"
    /\ UNCHANGED load_result
    /\ UNCHANGED notConfig

\* the process is stopped between two steps of a save
SaveInterrupted ==
    /\ saver.pc # "idle"
    /\ saver' = [saver EXCEPT !.pc = "idle"]
    /\ op' = "interrupted"
    /\ UNCHANGED <<files, committed, load_result>>
    /\ UNCHANGED notConfig

\* load_bindings at the next start
ConfigLoad ==
    /\ saver.pc = "idle"
    /\ load_result' = load_bindings(files)
    /\ op' = "load_bindings"
    /\ UNCHANGED <<files, saver, committed>>
    /\ UNCHANGED notConfig

ConfigInit ==
    /\ files = [main |-> None, bak |-> None, tmp |-> None]
    /\ saver = IdleSaver
    /\ committed = None
    /\ load_result = Err

ConfigNext ==
    \/ SaveWriteTmp \/ SaveRemoveBak \/ SaveRenameToBak \/ SaveRenameTmp
    \/ SaveInterrupted \/ ConfigLoad

\* ---------------------------------------------------------------------------
\* Debounced Key Light controller (key_light_controller.rs) and the Elgato
\* client's retry loop (plugins/elgato/client.rs)
\* ---------------------------------------------------------------------------
DEBOUNCE_MS == 80
WORKER_SLEEP_MS == 20
MAX_RETRIES == 2
RETRY_DELAY == 100
KEY_LIGHT_BRIGHTNESS_STEP == 2

\* granularity of the clock while the controller runs, and how far it runs
ClockTick == 50
MaxClockTicks == 4
\* how many encoder ticks arrive for the light under observation / the other
MaxDeltas == 5
MaxOtherDeltas == 1
\* how many of the ticks for the light under observation may be counter-clockwise
MaxNegDeltas == 1

\* "ip:port" keys of two lights
Lights == {"L1", "L2"}

\* states a light reports
KeyLightStates == {[on |-> TRUE, brightness |-> 96], [on |-> FALSE, brightness |-> 50]}

\* or_insert_with(|| PendingAdjustment { delta: 0, .. })
NewAdjustment(t) ==
    [delta |-> 0, first_delta_at |-> t, cached_brightness |-> None, cached_on |-> None]

\* a faulty variant: the new delta replaces the accumulated one
accumulate_last(entry_delta, delta) == delta

\* entry.delta += delta
accumulate(entry_delta, delta) == entry_delta + delta

\* queue_brightness_delta, the part under the pending lock
queue_brightness_delta(p, key, delta, t) ==
    LET entry == IF key \in DOMAIN p THEN p[key] ELSE NewAdjustment(t)
        sum == accumulate(entry.delta, delta)
    IN Insert(p, key, [entry EXCEPT !.delta = sum,
                                    !.first_delta_at = IF sum = delta THEN t ELSE @])

\* update_cached_state
update_cached_state(p, key, state, t) ==
    LET entry == IF key \in DOMAIN p THEN p[key] ELSE NewAdjustment(t)
    IN Insert(p, key, [entry EXCEPT !.cached_brightness = Some(state.brightness),
                                    !.cached_on = Some(state.on)])

\* a faulty variant: an adjustment is ready as soon as it is seen
debounce_skipped(t, first_delta_at) == TRUE

\* now.duration_since(adj.first_delta_at) >= DEBOUNCE_MS
debounce_elapsed(t, first_delta_at) == t - first_delta_at >= DEBOUNCE_MS

\* a faulty variant: the sum is sent unclamped
set_request_unclamped(current_brightness, current_on, delta) ==
    [on |-> (current_on \/ delta > 0) /\ current_brightness + delta > 0,
     brightness |-> current_brightness + delta]

\* apply_brightness_delta: the request set_state is called with
set_request(current_brightness, current_on, delta) ==
    LET new_brightness == clamp(current_brightness + delta, 0, 100)
        should_be_on == current_on \/ delta > 0
    IN [on |-> should_be_on /\ new_brightness > 0, brightness |-> new_brightness]

NoAdjustment == [key |-> "none", delta |-> 0, cached_brightness |-> None, cached_on |-> None]
NoRequest == [on |-> FALSE, brightness |-> 0]

Asleep(t) ==
    [pc |-> "sleep", wake_at |-> t + WORKER_SLEEP_MS, ready |-> {}, cur |-> NoAdjustment,
     call |-> "none", attempt |-> 0, any_applied |-> FALSE, req |-> NoRequest]

ZeroHist == [n |-> 0, sum |-> 0, first |-> 0, last |-> 0, waited |-> FALSE]

NoApplied ==
    [batch |-> ZeroHist, delta |-> 0, base |-> None, set_calls |-> 0, puts |-> 0,
     put_at |-> -1, brightness |-> -1, done |-> TRUE,
     fetched |-> None, result |-> "none", cache_before |-> None, cache_after |-> None,
     in_pass |-> FALSE, synced |-> FALSE, mate_pushed |-> FALSE]

\* handle_key_light_brightness: delta * KEY_LIGHT_BRIGHTNESS_STEP is queued
\* (queue_brightness_delta up to the release of the pending lock)
QueueBrightnessDelta ==
    \E key \in Lights, ticks \in {1, -1} :
        LET delta == ticks * KEY_LIGHT_BRIGHTNESS_STEP IN
        /\ q_pc = "idle"
        /\ budget[key] > 0
        /\ ticks = -1 => key = "L1" /\ neg_budget > 0
        /\ neg_budget' = IF ticks = -1 THEN neg_budget - 1 ELSE neg_budget
        /\ pending' = queue_brightness_delta(pending, key, delta, now)
        /\ q_pc' = "signal"
        /\ budget' = [budget EXCEPT ![key] = @ - 1]
        /\ hist' = [hist EXCEPT ![key] =
                      IF @.n = 0
                      THEN [n |-> 1, sum |-> delta, first |-> now, last |-> now,
                            waited |-> FALSE]
                      ELSE [@ EXCEPT !.n = @ + 1, !.sum = @ + delta, !.last = now]]
        /\ op' = "queue_brightness_delta"
        /\ UNCHANGED <<now, has_pending, worker, applied>>
        /\ UNCHANGED notCtl /\ UNCHANGED sync_flag

\* a faulty variant: the worker is not signalled
QueueSignalLost ==
    /\ q_pc = "signal"
    /\ q_pc' = "idle"
    /\ op' = "queue_signal"
    /\ UNCHANGED <<now, pending, has_pending, worker, hist, applied, budget, neg_budget>>
    /\ UNCHANGED notCtl /\ UNCHANGED sync_flag

\* queue_brightness_delta: `*has_pending = true`
QueueSignal ==
    /\ q_pc = "signal"
    /\ has_pending' = TRUE
    /\ q_pc' = "idle"
    /\ op' = "queue_signal"
    /\ UNCHANGED <<now, pending, worker, hist, applied, budget, neg_budget>>
    /\ UNCHANGED notCtl /\ UNCHANGED sync_flag

\* update_cached_state, called by a toggle thread with the state the light
\* reported; here the light under observation is toggled, if at all, before
\* the encoder is turned
UpdateCachedState ==
    \E key \in {"L1"}, state \in KeyLightStates :
        /\ op = "Init"
        /\ pending' = update_cached_state(pending, key, state, now)
        /\ op' = "update_cached_state"
        /\ UNCHANGED <<now, has_pending, q_pc, worker, hist, applied, budget, neg_budget>>
        /\ UNCHANGED notCtl /\ UNCHANGED sync_flag

\* worker_loop: the sleep ends and has_pending is read
WorkerWake ==
    /\ worker.pc = "sleep" /\ now >= worker.wake_at
    /\ worker' = IF has_pending THEN [worker EXCEPT !.pc = "collect"] ELSE Asleep(now)
    /\ op' = "worker_wake"
    /\ UNCHANGED <<now, pending, has_pending, q_pc, hist, applied, budget, neg_budget>>
    /\ UNCHANGED notCtl /\ UNCHANGED sync_flag

\* worker_loop: under the pending lock, take the adjustments whose debounce
\* window has elapsed, zero their deltas, clear has_pending when none is left
WorkerCollect ==
    LET ready_keys == {key \in DOMAIN pending :
                         /\ pending[key].delta # 0
                         /\ debounce_elapsed(now, pending[key].first_delta_at)}
        ready == {[key |-> key, delta |-> pending[key].delta,
                   cached_brightness |-> pending[key].cached_brightness,
                   cached_on |-> pending[key].cached_on] : key \in ready_keys}
        left == [key \in DOMAIN pending |->
                   IF key \in ready_keys THEN [pending[key] EXCEPT !.delta = 0]
                   ELSE pending[key]]
        any_pending == \E key \in DOMAIN left : left[key].delta # 0
    IN
    /\ worker.pc = "collect"
    /\ pending' = left
    /\ has_pending' = IF any_pending THEN has_pending ELSE FALSE
    /\ worker' = IF ready = {} THEN Asleep(now)
                 ELSE [worker EXCEPT !.pc = "apply", !.ready = ready, !.any_applied = FALSE]
    /\ hist' = [key \in Lights |-> IF key \in ready_keys THEN ZeroHist ELSE hist[key]]
    /\ applied' = [key \in Lights |->
                     IF key \in ready_keys
                     THEN [NoApplied EXCEPT !.batch = hist[key],
                                            !.delta = pending[key].delta,
                                            !.base = pending[key].cached_brightness,
                                            !.done = FALSE, !.in_pass = TRUE]
                     ELSE applied[key]]
    /\ op' = "worker_collect"
    /\ UNCHANGED <<now, q_pc, budget, neg_budget>>
    /\ UNCHANGED notCtl /\ UNCHANGED sync_flag

\* worker_loop: what follows an apply_brightness_delta call that returned
after_apply(w, ok, t) ==
    IF w.ready \ {w.cur} = {}
    THEN Asleep(t)
    ELSE [w EXCEPT !.pc = "apply", !.ready = @ \ {w.cur}, !.cur = NoAdjustment,
                   !.call = "none", !.attempt = 0, !.req = NoRequest,
                   !.any_applied = @ \/ ok]


\* worker_loop: `if any_applied { request_image_sync() }` once the last is applied
sync_requested(w, ok) == w.ready \ {w.cur} = {} /\ (w.any_applied \/ ok)

sync_after_apply(w, ok) == IF sync_requested(w, ok) THEN TRUE ELSE sync_flag

\* history: apply_brightness_delta returned for one light; when it was the last
\* of the pass, every light of the pass learns whether request_image_sync was
\* called and whether another light of the pass was pushed
finished(ap, key, result, before, after, requested) ==
    LET mine == [ap EXCEPT ![key].done = TRUE, ![key].result = result,
                           ![key].cache_before = before, ![key].cache_after = after]
        last == \A k \in Lights : mine[k].in_pass => mine[k].done
    IN IF ~last THEN mine
       ELSE [k \in Lights |->
               IF mine[k].in_pass
               THEN [mine[k] EXCEPT !.in_pass = FALSE, !.synced = requested,
                                    !.mate_pushed = \E m \in Lights \ {k} :
                                        mine[m].in_pass /\ mine[m].result = "pushed"]
               ELSE mine[k]]

\* the cached brightness of a light, None without an entry
cached_of(p, key) == IF key \in DOMAIN p THEN p[key].cached_brightness ELSE None

\* the first PUT of a set_state call goes out
put_issued(a, req, t) ==
    [a EXCEPT !.set_calls = @ + 1, !.puts = @ + 1, !.put_at = t,
              !.brightness = req.brightness]

\* worker_loop / apply_brightness_delta: the next ready adjustment (in the
\* HashMap's iteration order) is applied outside the lock: with cached values
\* set_state is called at once, without them get_state is called first
WorkerApply ==
    \E adj \in worker.ready :
        /\ worker.pc = "apply"
        /\ IF adj.cached_brightness # None /\ adj.cached_on # None
           THEN LET req == set_request(adj.cached_brightness[1], adj.cached_on[1], adj.delta) IN
                /\ worker' = [worker EXCEPT !.pc = "http", !.call = "put", !.cur = adj,
                                            !.attempt = 0, !.req = req]
                /\ applied' = [applied EXCEPT ![adj.key] = put_issued(@, req, now)]
           ELSE /\ worker' = [worker EXCEPT !.pc = "http", !.call = "get", !.cur = adj,
                                            !.attempt = 0]
                /\ UNCHANGED applied
        /\ op' = "worker_apply"
        /\ UNCHANGED <<now, pending, has_pending, q_pc, hist, budget, neg_budget>>
        /\ UNCHANGED notCtl /\ UNCHANGED sync_flag

\* with_retry: the HTTP request in flight returns, with success or an error
HttpReturns ==
    \E ok \in BOOLEAN, state \in KeyLightStates :
        LET key == worker.cur.key IN
        /\ worker.pc = "http"
        /\ (worker.call = "put" \/ ~ok) => state.on
        /\ CASE ok /\ worker.call = "get" ->
                  LET req == set_request(state.brightness, state.on, worker.cur.delta) IN
                  /\ worker' = [worker EXCEPT !.call = "put", !.attempt = 0, !.req = req]
                  /\ applied' = [applied EXCEPT ![key] =
                                   [put_issued(@, req, now) EXCEPT
                                      !.fetched = Some(state.brightness)]]
                  /\ UNCHANGED <<pending, sync_flag>>
             [] ok /\ worker.call = "put" ->
                  /\ pending' = IF key \in DOMAIN pending
                                THEN [pending EXCEPT
                                        ![key].cached_brightness = Some(worker.req.brightness),
                                        ![key].cached_on = Some(worker.req.on)]
                                ELSE pending
                  /\ worker' = after_apply(worker, TRUE, now)
                  /\ sync_flag' = sync_after_apply(worker, TRUE)
                  /\ applied' = finished(applied, key, "pushed", cached_of(pending, key),
                                         cached_of(pending', key),
                                         sync_requested(worker, TRUE))
             [] ~ok /\ worker.attempt < MAX_RETRIES ->
                  /\ worker' = [worker EXCEPT !.pc = "retry", !.wake_at = now + RETRY_DELAY]
                  /\ UNCHANGED <<pending, sync_flag, applied>>
             [] OTHER ->
                  /\ worker' = after_apply(worker, FALSE, now)
                  /\ sync_flag' = sync_after_apply(worker, FALSE)
                  /\ UNCHANGED pending
                  /\ applied' = finished(applied, key, "failed", cached_of(pending, key),
                                         cached_of(pending', key),
                                         sync_requested(worker, FALSE))
        /\ op' = "http_returns"
        /\ UNCHANGED <<now, has_pending, q_pc, hist, budget, neg_budget>>
        /\ UNCHANGED notCtl

\* with_retry: after RETRY_DELAY the request is sent again
HttpRetry ==
    /\ worker.pc = "retry" /\ now >= worker.wake_at
    /\ worker' = [worker EXCEPT !.pc = "http", !.attempt = @ + 1]
    /\ applied' = IF worker.call = "put"
                  THEN [applied EXCEPT ![worker.cur.key].puts = @ + 1]
                  ELSE applied
    /\ op' = "http_retry"
    /\ UNCHANGED <<now, pending, has_pending, q_pc, hist, budget, neg_budget>>
    /\ UNCHANGED notCtl /\ UNCHANGED sync_flag

\* something is queued, signalled or being applied
InProgress ==
    \/ has_pending
    \/ worker.pc # "sleep"
    \/ \E key \in DOMAIN pending : pending[key].delta # 0

\* time passes: only while no thread has a step to take, or while the worker
\* is blocked in a remote call. While nothing is in progress the passage of
\* time changes only the origin of the instants that follow, so the clock rests.
ClockStep ==
    /\ q_pc = "idle"
    /\ InProgress
    /\ worker.pc \in {"sleep", "retry", "http"}
    /\ worker.pc \in {"sleep", "retry"} => now < worker.wake_at
    /\ now' = now + ClockTick
    /\ hist' = [key \in Lights |->
                  IF hist[key].n > 0 /\ worker.pc # "sleep"
                  THEN [hist[key] EXCEPT !.waited = TRUE] ELSE hist[key]]
    /\ applied' = [key \in Lights |->
                     IF applied[key].done /\ ~applied[key].in_pass THEN NoApplied
                     ELSE IF applied[key].put_at < 0 /\ worker.pc # "sleep"
                     THEN [applied[key] EXCEPT !.batch.waited = TRUE] ELSE applied[key]]
    /\ op' = "clock"
    /\ UNCHANGED <<pending, has_pending, q_pc, worker, budget, neg_budget>>
    /\ UNCHANGED notCtl /\ UNCHANGED sync_flag

CtlClock == now < MaxClockTicks * ClockTick /\ ClockStep

CtlInit ==
    /\ pending = [key \in {} |-> NewAdjustment(0)]
    /\ has_pending = FALSE
    /\ q_pc = "idle"
    /\ worker = Asleep(0)
    /\ hist = [key \in Lights |-> ZeroHist]
    /\ applied = [key \in Lights |-> NoApplied]
    /\ budget = [key \in Lights |-> IF key = "L1" THEN MaxDeltas ELSE MaxOtherDeltas]
    /\ neg_budget = MaxNegDeltas

CtlNext ==
    \/ QueueBrightnessDelta \/ QueueSignal \/ UpdateCachedState
    \/ WorkerWake \/ WorkerCollect \/ WorkerApply \/ HttpReturns \/ HttpRetry
    \/ CtlClock

\* The controller followed through the retries of a failing request: the clock
\* runs long enough for MAX_RETRIES delays after the first pass, and the encoder
\* of the light under observation gives fewer ticks, all clockwise.
MaxApplyTicks == 6
MaxApplyDeltas == 3

ApplyQueue ==
    /\ QueueBrightnessDelta
    /\ budget'["L1"] >= MaxDeltas - MaxApplyDeltas
    /\ neg_budget' = neg_budget

ApplyClock == now < MaxApplyTicks * ClockTick /\ ClockStep

\* The controller with a worker that keeps running: the encoders are turned
\* during the first LiveQueueTicks clock ticks, every remote call succeeds and
\* returns within two more ticks, and the clock runs two ticks longer.
LiveQueueTicks == 2

LiveQueue ==
    /\ now <= LiveQueueTicks * ClockTick
    /\ QueueBrightnessDelta
    /\ budget'["L1"] >= MaxDeltas - MaxApplyDeltas

LiveHttp ==
    /\ HttpReturns
    /\ worker'.pc # "retry"

LiveClock ==
    /\ now < (LiveQueueTicks + 4) * ClockTick
    /\ worker.pc = "http" => now < (LiveQueueTicks + 2) * ClockTick
    /\ ClockStep

LiveNext ==
    \/ LiveQueue \/ QueueSignal \/ UpdateCachedState
    \/ WorkerWake \/ WorkerCollect \/ WorkerApply \/ LiveHttp
    \/ LiveClock

ApplyNext ==
    \/ ApplyQueue \/ QueueSignal \/ UpdateCachedState
    \/ WorkerWake \/ WorkerCollect \/ WorkerApply \/ HttpReturns \/ HttpRetry
    \/ ApplyClock

\* ---------------------------------------------------------------------------
\* A button toggle and a brightness batch for the same light
\* (plugins/elgato/plugin.rs, key_light_controller.rs, plugins/elgato/client.rs)
\* ---------------------------------------------------------------------------
\* Only the two workers change the light. A remote call that fails leaves the
\* light as it is.

\* accumulated deltas of the batch
PairDeltas == {-2 * KEY_LIGHT_BRIGHTNESS_STEP, KEY_LIGHT_BRIGHTNESS_STEP}

IdlePair ==
    [light |-> [on |-> FALSE, brightness |-> 50], cache |-> None,
     t_pc |-> "idle", t_read |-> None,
     w_pc |-> "idle", w_delta |-> 0, w_snapshot |-> None, w_base |-> None,
     w_pushed |-> None, failed |-> FALSE]

\* the light's state, the cache (empty, or holding that state) and a pending
\* delta; the button is pressed and the batch is due
PairBegin ==
    /\ pair.t_pc = "idle" /\ pair.w_pc = "idle"
    /\ \E light \in KeyLightStates, cached \in BOOLEAN, delta \in PairDeltas :
         pair' = [IdlePair EXCEPT !.light = light,
                                  !.cache = IF cached THEN Some(light) ELSE None,
                                  !.t_pc = "toggle", !.w_pc = "collect",
                                  !.w_delta = delta]
    /\ op' = "pair_begin"
    /\ UNCHANGED notPair

\* handle_key_light_button: client::toggle (get_state, then set_state with the
\* inverted on/off); an error is logged and the worker goes on
PairToggle ==
    /\ pair.t_pc = "toggle"
    /\ \E ok \in BOOLEAN :
         pair' = [pair EXCEPT !.t_pc = "reread",
                              !.light = IF ok THEN action_request("Toggle", @) ELSE @,
                              !.failed = @ \/ ~ok]
    /\ op' = "pair_toggle"
    /\ UNCHANGED notPair

\* handle_key_light_button: client::get_state after the action
PairReread ==
    /\ pair.t_pc = "reread"
    /\ \E ok \in BOOLEAN :
         pair' = IF ok THEN [pair EXCEPT !.t_pc = "store", !.t_read = Some(pair.light)]
                 ELSE [pair EXCEPT !.t_pc = "done", !.failed = TRUE]
    /\ op' = "pair_reread"
    /\ UNCHANGED notPair

\* handle_key_light_button: update_cached_state with the state read
PairStore ==
    /\ pair.t_pc = "store"
    /\ pair' = [pair EXCEPT !.t_pc = "done", !.cache = pair.t_read]
    /\ op' = "pair_store"
    /\ UNCHANGED notPair

\* worker_loop: the ready adjustment is taken with the cached values it has
PairCollect ==
    /\ pair.w_pc = "collect"
    /\ pair' = [pair EXCEPT !.w_pc = IF pair.cache = None THEN "fetch" ELSE "push",
                            !.w_snapshot = pair.cache, !.w_base = pair.cache]
    /\ op' = "pair_collect"
    /\ UNCHANGED notPair

\* apply_brightness_delta without cached values: get_state
PairFetch ==
    /\ pair.w_pc = "fetch"
    /\ \E ok \in BOOLEAN :
         pair' = IF ok THEN [pair EXCEPT !.w_pc = "push", !.w_base = Some(pair.light)]
                 ELSE [pair EXCEPT !.w_pc = "done", !.failed = TRUE]
    /\ op' = "pair_fetch"
    /\ UNCHANGED notPair

\* apply_brightness_delta: set_state with the clamped sum
PairPush ==
    /\ pair.w_pc = "push"
    /\ \E ok \in BOOLEAN :
         LET req == set_request(pair.w_base[1].brightness, pair.w_base[1].on,
                                pair.w_delta)
         IN pair' = IF ok THEN [pair EXCEPT !.w_pc = "write_back", !.light = req,
                                            !.w_pushed = Some(req)]
                    ELSE [pair EXCEPT !.w_pc = "done", !.failed = TRUE]
    /\ op' = "pair_push"
    /\ UNCHANGED notPair

\* worker_loop: the pushed values are written into the entry
PairWriteBack ==
    /\ pair.w_pc = "write_back"
    /\ pair' = [pair EXCEPT !.w_pc = "done", !.cache = pair.w_pushed]
    /\ op' = "pair_write_back"
    /\ UNCHANGED notPair

\* both workers are done; the next press and batch
PairReturn ==
    /\ pair.t_pc = "done" /\ pair.w_pc = "done"
    /\ pair' = IdlePair
    /\ op' = "pair_return"
    /\ UNCHANGED notPair

PairInit == pair = IdlePair

PairNext ==
    \/ PairBegin \/ PairToggle \/ PairReread \/ PairStore
    \/ PairCollect \/ PairFetch \/ PairPush \/ PairWriteBack \/ PairReturn

\* ---------------------------------------------------------------------------
\* One toggle request to the streaming software (plugins/obs/client.rs,
\* plugins/obs/plugin.rs)
\* ---------------------------------------------------------------------------

\* request types of the toggling actions
ToggleRequests ==
    {"ToggleStream", "ToggleRecord", "ToggleVirtualCam", "ToggleReplayBuffer",
     "ToggleInputMute"}

\* how send_request_on_socket ends: socket.send fails; the request is sent and
\* socket.read fails or yields something that is not a RequestResponse; the
\* response arrives
SocketOutcomes == {"send_failed", "sent_unanswered", "answered"}

\* whether the request went out on the wire
transmitted(outcome) == outcome # "send_failed"

IdleRpc ==
    [pc |-> "idle", request |-> "none", attempt |-> 0, sent |-> 0, pooled_used |-> FALSE,
     active_before |-> FALSE, active |-> FALSE, result |-> "none", pool |-> FALSE]

\* handle_stream_action and its siblings: the worker of a press calls
\* client::toggle_*, which calls send_request once; the output is active or not
\* and the pool holds a fresh socket for the key or not
RpcPress ==
    /\ rpc.pc = "idle"
    /\ \E request \in ToggleRequests, active \in BOOLEAN, pool \in BOOLEAN :
         rpc' = [IdleRpc EXCEPT !.pc = "take", !.request = request, !.pool = pool,
                                !.active_before = active, !.active = active]
    /\ op' = "rpc_press"
    /\ UNCHANGED notRpc

\* send_request: take_pooled_connection, and the request on the pooled socket;
\* on Err the socket is closed and the code falls through to with_retry
RpcPooled ==
    /\ rpc.pc = "take"
    /\ IF rpc.pool
       THEN \E outcome \in SocketOutcomes :
              rpc' = [rpc EXCEPT
                        !.pc = IF outcome = "answered" THEN "done" ELSE "connect",
                        !.result = IF outcome = "answered" THEN "Ok" ELSE @,
                        !.pooled_used = TRUE,
                        !.pool = outcome = "answered",
                        !.sent = IF transmitted(outcome) THEN @ + 1 ELSE @,
                        !.active = IF transmitted(outcome) THEN ~@ ELSE @]
       ELSE rpc' = [rpc EXCEPT !.pc = "connect"]
    /\ op' = "rpc_pooled"
    /\ UNCHANGED notRpc

\* with_retry: one run of the closure (create_connection, then the request on
\* the new socket); an Err is retried while attempt < MAX_RETRIES
RpcAttempt ==
    /\ rpc.pc = "connect"
    /\ \E connected_ok \in BOOLEAN, outcome \in SocketOutcomes :
         LET went == connected_ok /\ transmitted(outcome)
             ok == connected_ok /\ outcome = "answered"
         IN rpc' = [rpc EXCEPT
                      !.pc = IF ok \/ rpc.attempt >= MAX_RETRIES THEN "done" ELSE "connect",
                      !.result = IF ok THEN "Ok"
                                 ELSE IF rpc.attempt >= MAX_RETRIES THEN "Err" ELSE @,
                      !.attempt = IF ok \/ rpc.attempt >= MAX_RETRIES THEN @ ELSE @ + 1,
                      !.pool = ok,
                      !.sent = IF went THEN @ + 1 ELSE @,
                      !.active = IF went THEN ~@ ELSE @]
    /\ op' = "rpc_attempt"
    /\ UNCHANGED notRpc

\* the worker stores the result or logs the error; the next press
RpcReturn ==
    /\ rpc.pc = "done"
    /\ rpc' = IdleRpc
    /\ op' = "rpc_return"
    /\ UNCHANGED notRpc

RpcInit == rpc = IdleRpc

RpcNext == RpcPress \/ RpcPooled \/ RpcAttempt \/ RpcReturn

\* ---------------------------------------------------------------------------
\* with_retry (plugins/elgato/client.rs; plugins/obs/client.rs has the same
\* function)
\* ---------------------------------------------------------------------------

\* longest time one run of the operation takes, in ms
MaxOpTime == 50

\* what the operation returns
RetryValues == {42}
RetryErrors == {"timeout", "refused"}

\* a faulty variant: sleeps after every failure
sleep_after_always(attempt) == TRUE

\* if attempt < MAX_RETRIES: whether a failed attempt is followed by the sleep
sleep_after(attempt) == attempt < MAX_RETRIES

\* for attempt in 0..=MAX_RETRIES: whether the loop runs another attempt
loop_continues(attempt) == attempt + 1 <= MAX_RETRIES

IdleRetry == [pc |-> "idle", attempt |-> 0, elapsed |-> 0, attempts |-> <<>>,
              last_error |-> None, result |-> None]

\* with_retry is called
RetryCall ==
    /\ retry.pc \in {"idle", "returned"}
    /\ retry' = [IdleRetry EXCEPT !.pc = "attempt"]
    /\ op' = "with_retry"
    /\ UNCHANGED notRetry

\* one pass of the loop body up to the sleep: operation() runs and returns Ok
\* (with_retry returns it) or Err (kept as last_error)
RetryOperation ==
    \E took \in {0, MaxOpTime}, ok \in BOOLEAN, v \in RetryValues, e \in RetryErrors :
        LET end == retry.elapsed + took
            made == Append(retry.attempts,
                           [start |-> retry.elapsed, end |-> end, ok |-> ok,
                            value |-> v, error |-> e])
        IN  /\ retry.pc = "attempt"
            /\ retry' =
                 IF ok
                 THEN [retry EXCEPT !.pc = "returned", !.elapsed = end, !.attempts = made,
                                    !.result = Some([ok |-> TRUE, value |-> v, error |-> ""])]
                 ELSE IF sleep_after(retry.attempt)
                 THEN [retry EXCEPT !.pc = "sleep", !.elapsed = end, !.attempts = made,
                                    !.last_error = Some(e)]
                 ELSE [retry EXCEPT !.pc = "next", !.elapsed = end, !.attempts = made,
                                    !.last_error = Some(e)]
            /\ op' = "operation"
            /\ UNCHANGED notRetry

\* thread::sleep(RETRY_DELAY)
RetrySleep ==
    /\ retry.pc = "sleep"
    /\ retry' = [retry EXCEPT !.pc = "next", !.elapsed = retry.elapsed + RETRY_DELAY]
    /\ op' = "retry_sleep"
    /\ UNCHANGED notRetry

\* the end of the loop body: the next attempt, or Err(last_error.unwrap())
\* once the range is exhausted
RetryLoop ==
    /\ retry.pc = "next"
    /\ retry' =
         IF loop_continues(retry.attempt)
         THEN [retry EXCEPT !.pc = "attempt", !.attempt = retry.attempt + 1]
         ELSE [retry EXCEPT !.pc = "returned",
                            !.result = Some([ok |-> FALSE, value |-> 0,
                                             error |-> retry.last_error[1]])]
    /\ op' = "retry_loop"
    /\ UNCHANGED notRetry

RetryInit == retry = IdleRetry

RetryNext == RetryCall \/ RetryOperation \/ RetrySleep \/ RetryLoop


Init ==
    /\ op = "Init"
    /\ now = 0
    /\ DecoderInit
    /\ EngineInit
    /\ RegistryInit
    /\ RateInit
    /\ CtlInit
    /\ ToggleInit
    /\ CacheInit
    /\ LinkInit
    /\ ConfigInit
    /\ RetryInit
    /\ SwipeInit
    /\ AudioInit
    /\ LaunchInit
    /\ LocksInit
    /\ ObsInit
    /\ PollerInit
    /\ SyncInit
    /\ DispatchInit
    /\ LightPressInit
    /\ PanelInit
    /\ RpcInit
    /\ NestInit
    /\ PairInit
    /\ WideInit

SpecDecoder == Init /\ [][DecoderNext]_vars

SpecEngine == Init /\ [][EngineNext]_vars

SpecRegistry == Init /\ [][RegistryNext]_vars

SpecRate == Init /\ [][RateNext]_vars

SpecCtl == Init /\ [][CtlNext]_vars

SpecApply == Init /\ [][ApplyNext]_vars

\* the queueing thread finishes a call it began, the worker thread keeps
\* running, remote calls return and time passes
SpecQueueLive ==
    /\ Init /\ [][LiveNext]_vars
    /\ WF_vars(QueueSignal) /\ WF_vars(WorkerWake) /\ WF_vars(WorkerCollect)
    /\ WF_vars(WorkerApply) /\ WF_vars(LiveHttp) /\ WF_vars(LiveClock)

SpecToggle == Init /\ [][ToggleNext]_vars

SpecCache == Init /\ [][CacheNext]_vars

SpecLink == Init /\ [][LinkNext]_vars

SpecConfig == Init /\ [][ConfigNext]_vars

SpecRetry == Init /\ [][RetryNext]_vars

SpecSwipe == Init /\ [][SwipeNext]_vars

SpecAudio == Init /\ [][AudioNext]_vars

SpecLaunch == Init /\ [][LaunchNext]_vars

SpecLocks == Init /\ [][LocksNext]_vars

SpecObs == Init /\ [][ObsNext]_vars

SpecPoller == Init /\ [][PollerNext]_vars

SpecSync == Init /\ [][SyncNext]_vars

SpecDispatch == Init /\ [][DispatchNext]_vars

SpecLightPress == Init /\ [][LightPressNext]_vars

SpecPanel == Init /\ [][PanelNext]_vars

SpecRpc == Init /\ [][RpcNext]_vars

SpecNest == Init /\ [][NestNext]_vars

SpecPair == Init /\ [][PairNext]_vars

SpecWide == Init /\ [][WideNext]_vars

\* the engine thread keeps running: read_input returns within its timeout and
\* run retries the connection every RECONNECT_INTERVAL
SpecSyncLive ==
    /\ SpecSync
    /\ WF_vars(EngineConnect) /\ WF_vars(EngineSwap)
    /\ WF_vars(EngineRender) /\ WF_vars(EngineReadInput)

\* ------------------------------------------------------------------------
\* C1: after the first frame of a connection, a frame whose state vector has
\* the length of the previous one yields exactly one event per changed index,
\* carrying the new value, in ascending index order, and nothing else; an
\* unchanged vector yields no event.
\* ------------------------------------------------------------------------
Changed(prev, cur) == {i \in 1..Len(cur) : prev[i] # cur[i]}

ExactlyTheChanges(kind, prev, cur, evs) ==
    /\ Len(evs) = Cardinality(Changed(prev, cur))
    /\ \A n \in 1..Len(evs) :
         /\ evs[n].kind = kind
         /\ evs[n].index + 1 \in Changed(prev, cur)
         /\ evs[n].pressed = cur[evs[n].index + 1]
    /\ \A n \in 1..(Len(evs) - 1) : evs[n].index < evs[n + 1].index

C1_DiffEvents ==
    /\ (op = "ButtonStateChange" /\ Len(btn_hist) = 2
          /\ Len(btn_hist[1]) = Len(btn_hist[2]))
       => ExactlyTheChanges("Button", btn_hist[1], btn_hist[2], events)
    /\ (op = "EncoderStateChange" /\ Len(enc_hist) = 2
          /\ Len(enc_hist[1]) = Len(enc_hist[2]))
       => ExactlyTheChanges("EncoderPress", enc_hist[1], enc_hist[2], events)

\* a release and a press reported by one later frame
C1_Witness ==
    /\ op = "ButtonStateChange" /\ Len(btn_hist) = 2
    /\ btn_hist[1] = <<TRUE, FALSE>> /\ btn_hist[2] = <<FALSE, TRUE>>
    /\ Len(events) = 2

\* ------------------------------------------------------------------------
\* C2: the first button-state frame of every connection yields exactly the
\* presses of the pressed indices, whatever an earlier connection saw.
\* ------------------------------------------------------------------------
ExactlyThePresses(kind, cur, evs) ==
    /\ Len(evs) = Cardinality({i \in 1..Len(cur) : cur[i]})
    /\ \A n \in 1..Len(evs) :
         /\ evs[n].kind = kind
         /\ evs[n].pressed
         /\ evs[n].index + 1 \in 1..Len(cur)
         /\ cur[evs[n].index + 1]
    /\ \A n \in 1..(Len(evs) - 1) : evs[n].index < evs[n + 1].index

C2_FirstFramePresses ==
    (op = "ButtonStateChange" /\ Len(btn_hist) = 1)
       => ExactlyThePresses("Button", btn_hist[1], events)

\* a reconnect whose first frame has one pressed and one unpressed button,
\* after a connection that last saw the opposite states
C2_Witness ==
    /\ op = "ButtonStateChange" /\ Len(btn_hist) = 1
    /\ conn_count = 2
    /\ btn_hist[1] = <<TRUE, FALSE>>
    /\ Len(events) = 1

\* ---------------------------------------------------------------------------
\* Bindings
\* ---------------------------------------------------------------------------
SamePageAndInput(a, b) == a.page = b.page /\ inputs_match(a.input, b.input)

UniquePerPageInput(bs) ==
    \A m, n \in 1..Len(bs) : m # n => ~SamePageAndInput(bs[m], bs[n])

\* C3: from a list with unique (page, input) pairs, set_binding and
\* remove_binding keep at most one binding per (page, input), and directly
\* after set_binding the list holds exactly one binding with the supplied page
\* and input: the supplied binding itself.
C3_UniqueBinding ==
    /\ UniquePerPageInput(bindings)
    /\ op = "set_binding" =>
         /\ Cardinality({n \in 1..Len(bindings) :
                           SamePageAndInput(bindings[n], supplied)}) = 1
         /\ \E n \in 1..Len(bindings) : bindings[n] = supplied

\* set_binding replaced a binding of the same input and kept another input's
C3_Witness ==
    /\ op = "set_binding"
    /\ supplied = Binding(Button(0), 0, [capability |-> "OpenURL", button_image |-> UrlImage])
    /\ bindings = <<Binding(Swipe, 1, [capability |-> "Mute", button_image |-> NoImage]),
                    supplied>>

\* ---------------------------------------------------------------------------
\* Page navigation
\* ---------------------------------------------------------------------------
S3_Swipe == <<<<100, 50>>, <<220, 55>>>>

\* scenario S3: bindings only on page 0, current page 0, swipe (100,50) -> (220,55)
S3 ==
    /\ op = "TouchScreenSwipe"
    /\ swipe = S3_Swipe
    /\ pre.page = 0
    /\ bindings # <<>>
    /\ \A n \in 1..Len(bindings) : bindings[n].page = 0

PageEvent(page, page_count) ==
    [kind |-> "streamdeck:page", page |-> page, page_count |-> page_count]

C7_EngineNeverOnNetwork == engine_io = "none"

\* ---------------------------------------------------------------------------
\* Plugin registry
\* ---------------------------------------------------------------------------
\* C8: in every registry state every core plugin is enabled.
C8_CoreAlwaysEnabled ==
    \A p \in plugins : is_core(p) => p \in DOMAIN enabled /\ enabled[p]

\* C9: handle_event runs a plugin's handler only if that plugin is the
\* registered owner of the capability type and is enabled; for an unknown
\* capability type or a disabled owner no handler runs and the result is false.
C9_DispatchToEnabledOwner ==
    op = "handle_event" =>
        LET cap == dispatch.cap IN
        /\ dispatch.handler # "none" =>
             /\ cap \in DOMAIN capability_map
             /\ capability_map[cap] = dispatch.handler
             /\ cap \in capabilities(dispatch.handler)
             /\ dispatch.handler \in plugins
             /\ enabled[dispatch.handler]
        /\ cap \notin DOMAIN capability_map =>
             dispatch.handler = "none" /\ ~dispatch.result
        /\ (cap \in DOMAIN capability_map /\ ~enabled[capability_map[cap]]) =>
             dispatch.handler = "none" /\ ~dispatch.result

\* a press for a capability whose registered owner is disabled was dropped
C9_Witness ==
    /\ op = "handle_event"
    /\ dispatch.cap = "ElgatoKeyLight" /\ dispatch.pressed
    /\ "elgato" \in plugins /\ ~enabled["elgato"]
    /\ dispatch.handler = "none" /\ ~dispatch.result

WithinDebounce(h) == h.last - h.first < DEBOUNCE_MS

\* nothing is queued for the worker and the worker is in its sleep
Quiescent == q_pc = "idle" /\ ~has_pending /\ worker.pc = "sleep"

\* C5 as stated: two or more deltas queued for a light within 80 ms of the
\* first of them are applied in exactly one remote set call whose delta is
\* their sum.
C5_AsStated ==
    \A key \in Lights :
        /\ Quiescent => ~(hist[key].n >= 2 /\ WithinDebounce(hist[key]))
        /\ (applied[key].done /\ applied[key].batch.n >= 2
              /\ WithinDebounce(applied[key].batch)) =>
             applied[key].set_calls = 1 /\ applied[key].delta = applied[key].batch.sum

\* C5: the deltas queued for a light between two snapshots of the worker are
\* taken in one snapshot, no earlier than 80 ms after the first of them, with
\* a delta that is their sum, and lead to at most one set_state call: none when
\* the light had no cached state and get_state failed. Deltas that sum to zero
\* are never taken, and they are the only ones left when the controller is at rest.
C5_BatchAppliedOnce ==
    \A key \in Lights :
        /\ Quiescent => hist[key].sum = 0
        /\ applied[key].batch.n > 0 =>
             /\ applied[key].delta = applied[key].batch.sum
             /\ applied[key].batch.sum # 0
             /\ applied[key].set_calls <= 1
             /\ (applied[key].done /\ applied[key].set_calls = 0) => applied[key].base = None
             /\ op = "worker_collect" => now - applied[key].batch.first >= DEBOUNCE_MS

\* three deltas, one of them counter-clockwise, went out as one call
C5_Witness ==
    /\ applied["L1"].done
    /\ applied["L1"].batch.n = 3 /\ WithinDebounce(applied["L1"].batch)
    /\ applied["L1"].delta = KEY_LIGHT_BRIGHTNESS_STEP
    /\ applied["L1"].set_calls = 1

\* scenario S4: five +1 ticks within 60 ms
S4(h) == h.n = 5 /\ h.sum = 5 * KEY_LIGHT_BRIGHTNESS_STEP /\ h.last - h.first <= 60

\* C6 as stated: in S4 exactly one HTTP PUT is issued, carrying cached
\* brightness + 10, between 80 ms and 160 ms after the first tick, in every
\* schedule of the worker, also when it is applying a batch for another light
\* (the brightness is compared where cached + 10 stays within 0..100).
C6_AsStated ==
    LET a == applied["L1"] IN
    /\ (S4(hist["L1"]) /\ pending["L1"].cached_brightness # None) =>
         now - hist["L1"].first <= 160
    /\ (S4(a.batch) /\ a.base # None /\ a.put_at < 0) => now - a.batch.first <= 160
    /\ (S4(a.batch) /\ a.base # None /\ a.put_at >= 0) =>
         /\ a.puts = 1
         /\ a.base[1] + 10 <= 100 => a.brightness = a.base[1] + 10
         /\ a.put_at - a.batch.first >= 80
         /\ a.put_at - a.batch.first <= 160

\* C6: in S4 with a cached state one set_state call is made; its first PUT goes
\* out no earlier than 80 ms after the first tick and carries
\* clamp(cached brightness + 10, 0, 100); with_retry sends it at most
\* 1 + MAX_RETRIES times; it goes out within 160 ms of the first tick in the
\* schedules where the worker is in no other remote call in the meantime.
C6_S4Put ==
    LET a == applied["L1"] IN
    /\ (S4(hist["L1"]) /\ ~hist["L1"].waited) => now - hist["L1"].first <= 160
    /\ (S4(a.batch) /\ a.base # None /\ a.put_at < 0 /\ ~a.batch.waited) =>
         now - a.batch.first <= 160
    /\ (S4(a.batch) /\ a.base # None /\ a.put_at >= 0) =>
         /\ a.set_calls = 1
         /\ a.puts >= 1 /\ a.puts <= 1 + MAX_RETRIES
         /\ a.brightness = clamp(a.base[1] + 10, 0, 100)
         /\ a.put_at - a.batch.first >= DEBOUNCE_MS
         /\ ~a.batch.waited => a.put_at - a.batch.first <= 160

\* S4 on a light cached at brightness 50: one PUT carrying 60 went out and succeeded
C6_Witness ==
    LET a == applied["L1"] IN
    /\ S4(a.batch) /\ a.base = Some(50)
    /\ a.done /\ a.puts = 1 /\ a.brightness = 60
    /\ pending["L1"].cached_brightness = Some(60)

\* ---------------------------------------------------------------------------
\* C11. A press of a toggling RunCommand binding
\* ---------------------------------------------------------------------------

\* the toggle-state map after one flip of the binding's key, nothing else changed
FlippedOnce(p) ==
    LET key == binding_key(p.binding) IN
    /\ DOMAIN toggle_states = DOMAIN p.before \cup {key}
    /\ toggle_states[key] = ~toggle_get(p.before, key)
    /\ \A k \in DOMAIN p.before \ {key} : toggle_states[k] = p.before[k]

\* C11 as stated: every handled press of a RunCommand binding with toggle = true
\* has flipped the binding's state exactly once, after its command was spawned,
\* and has requested an image sync; with toggle = false the map is unchanged.
C11_AsStated ==
    op = "handled" =>
        IF press.binding.toggle
        THEN FlippedOnce(press) /\ press.spawned /\ sync_flag
        ELSE toggle_states = press.before

\* C11: every handled press of a RunCommand binding with toggle = true has
\* flipped the binding's state exactly once and requested an image sync, the
\* flip coming after run_shell_command has returned (the map is untouched
\* while the command is being spawned), whether or not a child was spawned;
\* with toggle = false the map and the flag are as before the press.
C11_FlipAfterRun ==
    /\ press.pc = "ran" => toggle_states = press.before /\ sync_flag = press.flag_before
    /\ op = "handled" =>
           IF press.binding.toggle
           THEN FlippedOnce(press) /\ sync_flag
           ELSE toggle_states = press.before /\ sync_flag = press.flag_before
    /\ op = "release" => toggle_states = press.before /\ sync_flag = press.flag_before

\* a toggling press whose child is still running when the state has been
\* flipped back to false
C11_Witness ==
    /\ op = "handled"
    /\ press.binding.toggle
    /\ press.spawned
    /\ press.child_alive
    /\ toggle_get(press.before, binding_key(press.binding))
    /\ ~toggle_get(toggle_states, binding_key(press.binding))

\* ---------------------------------------------------------------------------
\* C12-C14. Image cache
\* ---------------------------------------------------------------------------

KeysOf(es) == {es[i].key : i \in 1..Len(es)}

\* the last call stored a key the cache did not hold
InsertedNew ==
    /\ cache_op.kind \in {"put", "load_put"}
    /\ cache_op.key \notin KeysOf(cache_op.before)

\* C12: the cache never holds more than MAX_CACHE_ENTRIES entries, and storing a
\* new key in a full cache evicts exactly the entry whose last use (a
\* successful get or a put) lies furthest back.
C12_LruEviction ==
    /\ Len(entries) <= MAX_CACHE_ENTRIES
    /\ InsertedNew /\ Len(cache_op.before) = MAX_CACHE_ENTRIES =>
           /\ cache_op.lru # None
           /\ KeysOf(cache_op.before) \ KeysOf(entries) = {cache_op.lru[1]}
           /\ KeysOf(entries) \ KeysOf(cache_op.before) = {cache_op.key}
    /\ InsertedNew /\ Len(cache_op.before) < MAX_CACHE_ENTRIES =>
           KeysOf(entries) = KeysOf(cache_op.before) \cup {cache_op.key}

\* a new key stored in a full cache evicts the entry stored later of the two
\* the cache held, the other one having been used since
C12_Witness ==
    /\ InsertedNew
    /\ Len(cache_op.before) = MAX_CACHE_ENTRIES
    /\ Len(cache_op.before) >= 2
    /\ cache_op.before[1].cached_at > cache_op.before[2].cached_at
    /\ cache_op.before[1].key \notin KeysOf(entries)

\* the entry a get found for its key, if any
Found == peek(cache_op.before, cache_op.key)

\* a URL entry older than URL_CACHE_TTL at the time of the get
Expired == is_url(cache_op.key) /\ cache_op.at - Found[1].cached_at > URL_CACHE_TTL

\* a file entry whose file is readable and has the modification time recorded
\* when the entry was stored
SameFile ==
    /\ ~is_url(cache_op.key)
    /\ cache_op.file.readable
    /\ Found[1].file_mtime = Some(cache_op.file.mtime)

\* C13: put(k, v) stores v under k; a get of a key that is cached and not
\* invalid (a URL entry not older than 5 minutes, a file entry whose file is
\* unchanged) returns the stored image; a get of a URL entry older than 5
\* minutes returns none and removes the entry; and a key absent from the cache
\* becomes present only by a put of that key.
C13_GetAfterPut ==
    /\ cache_op.kind = "put" =>
           /\ peek(entries, cache_op.key) # <<>>
           /\ peek(entries, cache_op.key)[1].image = cache_op.image
    /\ cache_op.kind = "get" /\ Found = <<>> => cache_op.result = None
    /\ cache_op.kind = "get" /\ Found # <<>> /\ is_url(cache_op.key) /\ ~Expired =>
           cache_op.result = Some(Found[1].image)
    /\ cache_op.kind = "get" /\ Found # <<>> /\ SameFile =>
           cache_op.result = Some(Found[1].image)
    /\ cache_op.kind = "get" /\ Found # <<>> /\ Expired =>
           cache_op.result = None /\ cache_op.key \notin KeysOf(entries)
    /\ \A k \in KeysOf(entries) \ KeysOf(cache_op.before) :
           cache_op.kind \in {"put", "load_put"} /\ k = cache_op.key

\* a get of a URL key stored more than 5 minutes earlier
C13_Witness ==
    /\ cache_op.kind = "get"
    /\ Found # <<>>
    /\ Expired
    /\ cache_op.result = None

\* C14 as stated: a read that returns the cached image of a local file finds
\* the file's modification time readable and equal to the one recorded when
\* the entry was stored.
C14_AsStated ==
    /\ cache_op.kind \in {"get", "load_hit"}
    /\ ~is_url(cache_op.key)
    /\ cache_op.result # None
    => /\ cache_op.file.readable
       /\ Found[1].file_mtime = Some(cache_op.file.mtime)

\* ---------------------------------------------------------------------------
\* C15, C16. Disconnect and reconnection
\* ---------------------------------------------------------------------------

\* the connection event emitted last was connected = b
LastEvent(b) == conn_events # <<>> /\ conn_events[Len(conn_events)] = b

\* C15: after a failed HID read the engine emits connected=false and clears
\* the device info before it attempts a new connection, and then waits; the
\* engine thread always has a next step (the outer loop does not end); and
\* connected=true and connected=false events alternate, starting with true.
C15_DisconnectThenWait ==
    /\ link_pc \in {"connect", "loop", "disconnected", "clear", "sleep"}
    /\ ENABLED LinkEngine
    /\ Len(conn_events) = 1 => conn_events[1] = TRUE
    /\ Len(conn_events) = 2 => conn_events[1] # conn_events[2]
    /\ link_pc \in {"connect", "sleep"} =>
           device_info = None /\ (conn_events = <<>> \/ LastEvent(FALSE))
    /\ link_pc \in {"loop", "disconnected"} => device_info # None /\ LastEvent(TRUE)
    /\ link_pc = "clear" => LastEvent(FALSE)
    /\ op = "read_error" => link_pc = "disconnected"
    /\ op = "clear_device_info" => link_pc = "sleep" /\ sleep_left = RECONNECT_INTERVAL

\* the engine is connected again after a read error had ended a connection
C15_Witness ==
    /\ op = "try_connect"
    /\ link_pc = "loop"
    /\ conn_events = <<FALSE, TRUE>>

\* C16 as stated: while the engine waits with the device-connected flag set, no
\* more than 200 ms have passed since the monitor set it, and the flag has
\* been consumed when the next connection attempt starts.
C16_AsStated ==
    /\ link_pc = "sleep" /\ hotplug_flag => since_plug <= 200
    /\ link_pc = "connect" => ~hotplug_flag

\* ---------------------------------------------------------------------------
\* C17. Saving and loading the bindings file
\* ---------------------------------------------------------------------------

\* C17: once a save_bindings has completed, load_bindings returns the list of
\* the last completed save, or the list of the save that was interrupted
\* after it, and never the defaults or an error; with no save interrupted
\* since, it returns exactly the list saved.
C17_LoadAfterSave ==
    op = "load_bindings" /\ committed # None =>
        /\ load_result.ok
        /\ load_result.bindings \in {committed[1], saver.bindings}
        /\ saver.bindings = <<>> => load_result.bindings = committed[1]

\* a load that finds the main file missing, a save having been interrupted
\* between its two renames, and returns the list saved before
C17_Witness ==
    /\ op = "load_bindings"
    /\ committed # None
    /\ files.main = None
    /\ files.tmp # None
    /\ Len(committed[1]) = 2
    /\ committed[1][2].label # None
    /\ load_result = Ok(committed[1])

\* ---------------------------------------------------------------------------
\* C18. with_retry
\* ---------------------------------------------------------------------------

\* C18: a with_retry call that has returned ran the operation at most
\* 1 + MAX_RETRIES times, every run but the last one failed, a success is
\* returned at once with its value, RETRY_DELAY passes between the end of a
\* run and the start of the next and no time after the last run, and after
\* 1 + MAX_RETRIES failures the error of the last run is returned.
C18_RetryAtMostTwice ==
    LET a == retry.attempts
        n == Len(a)
    IN  /\ n <= 1 + MAX_RETRIES
        /\ retry.pc = "returned" =>
               /\ n >= 1
               /\ \A i \in 1..(n - 1) : ~a[i].ok /\ a[i + 1].start - a[i].end = RETRY_DELAY
               /\ retry.elapsed = a[n].end
               /\ retry.result[1].ok = a[n].ok
               /\ a[n].ok => retry.result[1].value = a[n].value
               /\ ~a[n].ok => n = 1 + MAX_RETRIES /\ retry.result[1].error = a[n].error

\* a call that returns the error of its third run, which differs from the
\* errors before it
C18_Witness ==
    /\ retry.pc = "returned"
    /\ Len(retry.attempts) = 3
    /\ ~retry.result[1].ok
    /\ retry.attempts[1].error # retry.attempts[3].error
    /\ retry.elapsed >= 2 * RETRY_DELAY

\* ---------------------------------------------------------------------------
\* C19. Swipe classifier
\* ---------------------------------------------------------------------------

\* C19: for start a and end b, detect_swipe_direction returns Right if and
\* only if b.x - a.x > 50 and |b.y - a.y| <= b.x - a.x, Left if and only if
\* a.x - b.x > 50 and |b.y - a.y| <= a.x - b.x, and None in every other case.
C19_SwipeClassifier ==
    LET a == classified.start
        b == classified.end
        ady == IF b[2] >= a[2] THEN b[2] - a[2] ELSE a[2] - b[2]
        right == b[1] - a[1] > 50 /\ ady <= b[1] - a[1]
        left == a[1] - b[1] > 50 /\ ady <= a[1] - b[1]
    IN  /\ classified.direction = "Right" <=> right
        /\ classified.direction = "Left" <=> left
        /\ classified.direction = "None" <=> ~right /\ ~left

\* a gesture on the diagonal, one pixel over the threshold
C19_Witness ==
    /\ op = "classify"
    /\ classified.end[1] - classified.start[1] = 51
    /\ classified.end[2] - classified.start[2] = 51
    /\ classified.direction = "Right"

\* ---------------------------------------------------------------------------
\* C20. Encoder rotation to volume writes
\* ---------------------------------------------------------------------------

\* the bindings a frame's event of encoder i meets: SystemAudio bindings of
\* that encoder on the current page
AudioBindingsOf(i) ==
    {n \in 1..Len(bindings) :
        /\ bindings[n].input = [kind |-> "Encoder", index |-> i]
        /\ bindings[n].page = current_page
        /\ bindings[n].capability.type = "SystemAudio"}

\* the volume the tool reported to a write, 0.5 when no word of it is a number
OldVolume(w) ==
    LET nums == {n \in 1..Len(w.stdout) : w.stdout[n].f32 # <<>>}
    IN IF nums = {} THEN 5000
       ELSE w.stdout[CHOOSE n \in nums : \A m \in nums : n <= m].f32[1]

\* C20: for every encoder-twist frame D, exactly one encoder event is emitted
\* for each index i with D[i] != 0, carrying delta D[i]; for each such event
\* that matches a SystemAudio{step} binding on the current page exactly one
\* volume write is made, with value clamp(old + D[i] * step, 0, 1) formatted to
\* 3 decimals, where old is the volume read from the OS tool (0.5 if it cannot
\* be parsed); indices with delta 0 cause no event and no write.
C20_TwistToVolume ==
    op = "EncoderTwist" =>
        /\ \A i \in 1..Len(twist) :
             LET evs == {n \in 1..Len(events) : events[n].index = i - 1}
                 ws == {n \in 1..Len(volume_writes) : volume_writes[n].index = i - 1}
             IN IF twist[i] = 0
                THEN evs = {} /\ ws = {}
                ELSE /\ Cardinality(evs) = 1
                     /\ \A n \in evs : events[n].kind = "Encoder"
                                       /\ events[n].delta = twist[i]
                     /\ IF AudioBindingsOf(i - 1) = {} THEN ws = {}
                        ELSE Cardinality(ws) = 1
        /\ Len(events) <= Len(twist)
        /\ \A n \in 1..Len(volume_writes) :
             LET w == volume_writes[n]
                 sum == OldVolume(w) + twist[w.index + 1] * w.step
                 exact == IF sum < 0 THEN 0 ELSE IF sum > 10000 THEN 10000 ELSE sum
             IN /\ w.index + 1 \in 1..Len(twist)
                /\ \E b \in AudioBindingsOf(w.index) :
                     bindings[b].capability.step = w.step
                /\ 10 * w.arg - exact <= 5
                /\ exact - 10 * w.arg <= 5
                /\ w.arg \in 0..1000

\* both encoders turn on page 1: the first has a SystemAudio binding there and
\* the write is clamped to 1.000, the second has its binding on page 0
C20_Witness ==
    /\ op = "EncoderTwist"
    /\ current_page = 1
    /\ twist = <<3, -3>>
    /\ Len(events) = 2
    /\ Len(bindings) = 2
    /\ AudioBindingsOf(0) # {}
    /\ \E n \in 1..2 : bindings[n].input.index = 1 /\ bindings[n].page = 0
                       /\ bindings[n].capability.type = "SystemAudio"
    /\ Len(volume_writes) = 1
    /\ volume_writes[1].arg = 1000

\* a write that rounds a sum lying between two thousandths
C20_WitnessRounded ==
    /\ op = "EncoderTwist"
    /\ Len(volume_writes) = 2
    /\ volume_writes[1].arg = 539
    /\ volume_writes[2].arg = 0

\* ---------------------------------------------------------------------------
\* C21. launch_app's allowlist
\* ---------------------------------------------------------------------------

\* the characters the claim lists
C21_Listed ==
    {"$", "backtick", ";", "|", "&", ">", "<", "(", ")", "{", "}", "[", "]", "!", "LF", "CR"}

\* the directories the claim lists
C21_Directories ==
    {<<"/", "u", "s", "r", "/", "b", "i", "n", "/">>,
     <<"/", "u", "s", "r", "/", "l", "o", "c", "a", "l", "/", "b", "i", "n", "/">>,
     <<"/", "b", "i", "n", "/">>, <<"/", "o", "p", "t", "/">>}

\* C21: launch_app spawns a process for its argument only if the trimmed
\* argument is non-empty, contains none of the characters $ ` ; | & > < ( ) { }
\* [ ] ! newline or carriage return, does not contain '..', and, if it is an
\* absolute path, starts with /usr/bin/, /usr/local/bin/, /bin/ or /opt/;
\* '/home/x/ls' and 'ls; rm -rf /' are rejected without any process being
\* spawned.
C21_AsStated ==
    LET app == trim(launch.app) IN
    /\ launch.process =>
         /\ app # <<>>
         /\ \A i \in 1..Len(app) : app[i] \notin C21_Listed
         /\ \A i \in 1..(Len(app) - 1) : ~(app[i] = "." /\ app[i + 1] = ".")
         /\ (app[1] = "/") =>
              \E d \in C21_Directories :
                  Len(app) >= Len(d) /\ \A i \in 1..Len(d) : app[i] = d[i]
    /\ launch.app \in {<<"/", "h", "o", "m", "e", "/", "x", "/", "l", "s">>,
                       <<"l", "s", ";", " ", "r", "m", " ", "-", "r", "f", " ", "/">>}
         => ~launch.called

\* what holds of the function in core/commands.rs alone
C21_CoreFunction == launch.via = "core" => C21_AsStated

\* ---------------------------------------------------------------------------
\* C22. Poisoned locks
\* ---------------------------------------------------------------------------

\* C22: if a thread panics while holding one of the shared locks, every thread
\* that later takes that lock recovers the inner value and keeps doing its
\* work: no engine, state-manager, controller-worker, dispatch or command
\* thread aborts or stops working because the lock is poisoned.
C22_AsStated ==
    /\ running = LockThreads
    /\ lock_use.was_poisoned => lock_use.outcome = "done"

\* the acquisitions that do recover the inner value
C22_Recovered ==
    lock_use.was_poisoned /\ lock_use.use.how = "recover" =>
        lock_use.outcome = "done" /\ lock_use.use.thread \in running

\* ---------------------------------------------------------------------------
\* C23. Request ids of OBS requests
\* ---------------------------------------------------------------------------

\* the request ids handed out are pairwise different
C23_UniqueIds ==
    \A i, j \in 1..Len(issued) : i # j => issued[i] # issued[j]

\* C23: every request sent to the streaming software carries a request id that
\* is unique within the process, and a received message is returned as the
\* result of a request only if it is a response (opcode 7) carrying that same
\* request id; an event message or the response to another request is never
\* returned as this request's result.
C23_AsStated ==
    /\ C23_UniqueIds
    /\ \A t \in ObsThreads :
         obs_calls[t].result = "Ok" =>
             /\ obs_calls[t].received.op = 7
             /\ obs_calls[t].received.requestId = obs_calls[t].request.requestId

\* what the opcode check does give: unique ids, and no event returned as a result
C23_OpcodeOnly ==
    /\ C23_UniqueIds
    /\ \A t \in ObsThreads :
         obs_calls[t].result = "Ok" => obs_calls[t].received.op = 7

\* ---------------------------------------------------------------------------
\* C24. Range of the current page
\* ---------------------------------------------------------------------------

\* C24: in every state reachable by any interleaving of swipe navigation with
\* set_binding and remove_binding, the current page lies in
\* [0, max_bound_page + 1], where max_bound_page is the highest page that
\* currently has a binding (0 if there is none).
C24_AsStated ==
    LET pages == {bindings[n].page : n \in 1..Len(bindings)}
        max_bound_page == IF pages = {} THEN 0
                          ELSE CHOOSE m \in pages : \A p \in pages : p <= m
    IN current_page >= 0 /\ current_page <= max_bound_page + 1

\* what a swipe alone guarantees: it never moves the page out of the range
C24_SwipeStaysInRange ==
    op = "TouchScreenSwipe" /\ current_page # pre.page =>
        current_page <= get_max_page(bindings) + 1

\* ---------------------------------------------------------------------------
\* C25. What a poll leaves alone
\* ---------------------------------------------------------------------------

\* C25: a state-manager poll changes only is_muted, is_mic_muted and
\* is_playing: the key_lights, toggle_states and obs_states maps of the system
\* state are the same after the poll as before it, and updates to them made by
\* plugin workers while the OS tools were being queried are not lost.
C25_AsStated ==
    poll_hist.committed =>
        /\ system_state.key_lights = poll_hist.before.key_lights
        /\ toggle_states = poll_hist.toggles_before
        /\ system_state.obs_states = poll_hist.before.obs_states

\* the one map the poll copies over
C25_KeyLightsKept ==
    poll_hist.committed => system_state.key_lights = poll_hist.before.key_lights

\* ---------------------------------------------------------------------------
\* C29. Requested and periodic polls
\* ---------------------------------------------------------------------------

\* C29: every request_state_check is followed, within one 100 ms tick of the
\* state manager, by a poll of the OS state that starts after the request, and
\* that poll clears the flag; requests made before the flag is consumed
\* coalesce into one poll; independently of the flag a poll is made on every
\* PollTicks-th tick (the 20th in the source).
C29_PollAfterRequest ==
    \* no request waits through a second sleep, and none is lost
    /\ unserved # "late"
    /\ CHECK_STATE_NOW <=> unserved # "none"
    \* after the one sleep the poller is at the swap, or in the periodic poll
    \* that precedes it
    /\ unserved = "slept" => poller.pc = "top" \/ poller.kind = "tick"
    \* the swap that finds the flag set clears it and starts one poll for all
    \* the requests made so far
    /\ op = "poller_swap" /\ poller.kind = "flag" =>
           ~CHECK_STATE_NOW /\ unserved = "none" /\ poller.pc = "query"
    \* the periodic poll
    /\ ticks_since_poll <= PollTicks
    /\ ticks_since_poll = PollTicks => poller.pc = "query" /\ poller.kind = "tick"

\* a request made during a sleep, found by the swap after it
C29_Witness ==
    /\ op = "poller_swap"
    /\ poller.kind = "flag"
    /\ TICK_COUNT > 0

\* the periodic poll begins on the PollTicks-th tick with no request pending
C29_WitnessPeriodic ==
    /\ op = "poller_query"
    /\ poller.kind = "tick"
    /\ ~CHECK_STATE_NOW

\* ---------------------------------------------------------------------------
\* C30. What a poll stores and emits
\* ---------------------------------------------------------------------------

\* C30: a poll stores the polled values, emits state:change and requests an
\* image sync if and only if at least one of is_muted, is_mic_muted,
\* is_playing differs from the stored system state; when none differs, the
\* stored state is unchanged and neither an event nor a sync request is
\* produced; the emitted snapshot equals the state stored by that poll.
C30_PollEffect ==
    poll_hist.committed =>
        LET before == poll_hist.before
            polled == poll_hist.polled
            differs == \/ polled.is_muted # before.is_muted
                       \/ polled.is_mic_muted # before.is_mic_muted
                       \/ polled.is_playing # before.is_playing
        IN IF differs
           THEN /\ system_state.is_muted = polled.is_muted
                /\ system_state.is_mic_muted = polled.is_mic_muted
                /\ system_state.is_playing = polled.is_playing
                /\ poll_hist.sync_requested /\ sync_flag
                /\ poll_hist.event # <<>>
                /\ poll_hist.event[1].kind = "state:change"
                /\ poll_hist.event[1].is_muted = system_state.is_muted
                /\ poll_hist.event[1].is_mic_muted = system_state.is_mic_muted
                /\ poll_hist.event[1].is_playing = system_state.is_playing
                /\ poll_hist.event[1].key_lights = system_state.key_lights
           ELSE /\ system_state = before
                /\ toggle_states = poll_hist.toggles_before
                /\ poll_hist.event = <<>>
                /\ ~poll_hist.sync_requested

\* a poll that found only is_playing changed, with a key light recorded
C30_Witness ==
    /\ poll_hist.committed
    /\ poll_hist.event # <<>>
    /\ poll_hist.before.is_playing # system_state.is_playing
    /\ poll_hist.before.is_muted = system_state.is_muted
    /\ poll_hist.before.is_mic_muted = system_state.is_mic_muted
    /\ LightKey \in DOMAIN system_state.key_lights

\* a poll that found nothing changed
C30_WitnessUnchanged ==
    /\ poll_hist.committed
    /\ poll_hist.event = <<>>
    /\ system_state.is_muted

\* ---------------------------------------------------------------------------
\* C26. Image-sync requests coalesce and none is lost
\* ---------------------------------------------------------------------------

\* C26: the image-sync requests made between two consecutive checks of the
\* flag cause exactly one render, and no request is lost: after every
\* request_image_sync a render that reads the bindings, the system state and
\* the page after that request takes place. As a state property: a request
\* that no render has served yet is still recorded in the flag or is being
\* rendered, and a check that found requests made exactly one render.
C26_AsStated ==
    /\ unrendered => sync_flag \/ engine_pc = "render"
    /\ op = "engine_render" => sync_hist.renders = 1

\* the same while neither the bindings nor the system state is poisoned: the
\* check renders once for any number of requests, never without one, and
\* with no request outstanding the device shows the bindings and the page
C26_UnlessPoisoned ==
    poisoned \cap RenderLocks = {} =>
        /\ unrendered => sync_flag \/ engine_pc = "render"
        /\ op = "engine_render" => sync_hist.renders = 1 /\ sync_hist.requests >= 1
        /\ op = "engine_swap" => (sync_hist.taken <=> sync_hist.requests >= 1)
        /\ op = "engine_swap" /\ ~sync_hist.taken => engine_pc = "read_input"
        /\ ~unrendered /\ displayed # <<>> =>
               displayed[1] = Shown(bindings, current_page)

\* two requests before one check, one render
C26_Coalesced ==
    /\ op = "engine_render"
    /\ sync_hist.requests = 2
    /\ sync_hist.renders = 1
    /\ ~unrendered

\* while neither lock is ever poisoned, every request is followed by a render
\* made after it
C26_EventuallyRendered ==
    [](poisoned \cap RenderLocks = {}) => (unrendered ~> ~unrendered)

\* ---------------------------------------------------------------------------
\* C27. Which bindings an event reaches
\* ---------------------------------------------------------------------------

\* same kind and same index; Swipe takes any swipe
Structurally(input, event) ==
    /\ input.kind = event.kind
    /\ input.kind # "Swipe" => input.index = event.index

\* the (event, binding) pairs of the handled frame that must reach a handler
Due ==
    {kn \in (1..Len(frame.events)) \X (1..Len(bindings)) :
        /\ bindings[kn[2]].page = frame.page
        /\ Structurally(bindings[kn[2]].input, frame.events[kn[1]])}

\* C27: a binding's handler is invoked for a logical event if and only if the
\* binding's page is the page sampled for the frame and its input matches the
\* event structurally, whatever the capability; a swipe classified Left or
\* Right is consumed by page navigation and invokes no binding, a swipe that
\* does not classify is dispatched to the Swipe bindings of the page.
C27_DispatchIffMatch ==
    frame.kind # "none" =>
        IF frame.kind = "TouchScreenSwipe" /\ frame.direction # "None"
        THEN frame.invoked = <<>>
        ELSE /\ \A kn \in Due :
                  \E j \in 1..Len(frame.invoked) :
                      frame.invoked[j] = Call(frame.events[kn[1]], bindings[kn[2]])
             /\ \A j \in 1..Len(frame.invoked) :
                  \E kn \in Due :
                      frame.invoked[j] = Call(frame.events[kn[1]], bindings[kn[2]])
             /\ Len(frame.invoked) = Cardinality(Due)

\* a press of Button 0 on page 1 reaches the binding of page 1 and not the
\* binding of the same button on page 0
C27_Witness ==
    /\ frame.kind = "ButtonStateChange"
    /\ frame.page = 1
    /\ frame.invoked = <<Call(LogicalEvent("Button", 0, TRUE), Bound(Button(0), 1, "RunCommand"))>>
    /\ \E n \in 1..Len(bindings) : bindings[n] = Bound(Button(0), 0, "Mute")

\* a swipe that does not classify reaches the Swipe binding of the page
C27_WitnessSwipe ==
    /\ frame.kind = "TouchScreenSwipe"
    /\ frame.direction = "None"
    /\ Len(frame.invoked) = 1
    /\ frame.invoked[1].binding.input = Swipe

\* a classified swipe on a page with a Swipe binding reaches nothing
C27_WitnessNavigation ==
    /\ frame.kind = "TouchScreenSwipe"
    /\ frame.direction # "None"
    /\ \E n \in 1..Len(bindings) :
         bindings[n].input = Swipe /\ bindings[n].page = frame.page

\* ---------------------------------------------------------------------------
\* C28. Press-triggered capabilities act on the pressed edge only
\* ---------------------------------------------------------------------------
PressTriggered == AudioPress \cup MediaKeys \cup Commands \cup ObsPress

\* the calls of the handled frame in which the handler of binding b acted
ActsOf(b) == {j \in 1..Len(frame.acted) : frame.acted[j].binding = b}

\* the button (or encoder knob) of binding b went from released to pressed in
\* the handled frame; before the first frame of a connection all are released
PressedEdge(b) ==
    /\ \/ b.input.kind = "Button" /\ frame.kind = "ButtonStateChange"
       \/ b.input.kind = "EncoderPress" /\ frame.kind = "EncoderStateChange"
    /\ b.input.index + 1 \in DOMAIN frame.states
    /\ frame.states[b.input.index + 1]
    /\ frame.prev = <<>> \/ ~frame.prev[b.input.index + 1]

C28_WitnessRelease ==
    /\ frame.kind = "ButtonStateChange"
    /\ Len(frame.invoked) > 0
    /\ \A j \in 1..Len(frame.invoked) : ~frame.invoked[j].event.pressed
    /\ frame.acted = <<>>

\* ---------------------------------------------------------------------------
\* C31. A press on a Key Light binding
\* ---------------------------------------------------------------------------

\* the on/off state the configured action leaves the light in
ConfiguredOn(action, before) ==
    CASE action = "Toggle" -> ~before.on
      [] action = "On" -> TRUE
      [] OTHER -> FALSE

\* C31: a press on a Key Light binding makes a worker issue the action
\* configured in the binding (Toggle inverts the on/off state, On turns the
\* light on, Off turns it off), then re-read the device state, store it in
\* system_state.key_lights, prime the controller's cached state with it and
\* request an image sync.
C31_AsStated ==
    light_press.pc = "done" /\ light_press.action_ok =>
        /\ light_press.issued = light_press.configured
        /\ light_press.light.on = ConfiguredOn(light_press.configured, light_press.before)
        /\ light_press.read # <<>> =>
               /\ light_press.key_lights = Some(light_press.light)
               /\ light_press.cached = Some(light_press.light)
        /\ light_press.sync_requested

\* what the worker does whatever the binding says: it toggles, and what it
\* re-read is what it stores and primes the controller with
C31_AlwaysToggles ==
    light_press.pc = "done" =>
        /\ light_press.issued = "Toggle"
        /\ light_press.action_ok => light_press.light.on = ~light_press.before.on
        /\ light_press.read # <<>> =>
               /\ light_press.read = Some(light_press.light)
               /\ light_press.key_lights = light_press.read
               /\ light_press.cached = light_press.read
        /\ light_press.sync_requested

\* ---------------------------------------------------------------------------
\* C32: what the worker pushes for a batch, and what follows success and failure
\* ---------------------------------------------------------------------------

\* the brightness a finished batch started from: the cached value, or the
\* fetched one when nothing was cached
BaseOf(a) == IF a.base # None THEN a.base ELSE a.fetched

\* a finished batch whose pass is over
Settled(key) ==
    /\ applied[key].done /\ applied[key].result # "none" /\ ~applied[key].in_pass

\* every batch that reached a set_state call pushed clamp(base + delta, 0, 100),
\* fetching the base exactly when nothing was cached
PushedValue(key) ==
    LET a == applied[key] IN
    a.set_calls > 0 =>
        /\ a.set_calls = 1
        /\ (a.base = None) = (a.fetched # None)
        /\ a.brightness = (IF BaseOf(a)[1] + a.delta < 0 THEN 0
                           ELSE IF BaseOf(a)[1] + a.delta > 100 THEN 100
                           ELSE BaseOf(a)[1] + a.delta)

\* a pushed batch leaves the pushed value in the cache and its pass requests
\* an image sync
AfterSuccess(key) ==
    LET a == applied[key] IN
    (a.done /\ a.result = "pushed") =>
        /\ a.set_calls = 1
        /\ a.cache_after = Some(a.brightness)
        /\ (~a.in_pass => a.synced)

\* a batch whose fetch or push finally failed leaves the cache as it was
CacheKept(key) ==
    LET a == applied[key] IN
    (a.done /\ a.result = "failed") =>
        /\ a.cache_after = a.cache_before
        /\ a.cache_after = a.base

\* C32 as stated: the value pushed for a batch is clamp(base + delta, 0, 100)
\* with base the cached or else the fetched brightness; after a successful
\* push the cache holds the pushed value and an image sync is requested; after
\* a final failure the cache is unchanged and no image sync is requested
C32_AsStated ==
    \A key \in Lights :
        /\ PushedValue(key) /\ AfterSuccess(key) /\ CacheKept(key)
        /\ (Settled(key) /\ applied[key].result = "failed") => ~applied[key].synced

\* C32 amended: as above, but the image sync is requested once per worker pass,
\* exactly when at least one light's batch of that pass was pushed; so after a
\* final failure no image sync is requested unless another light's batch of
\* the same pass was pushed
C32_SyncPerPass ==
    \A key \in Lights :
        /\ PushedValue(key) /\ AfterSuccess(key) /\ CacheKept(key)
        /\ (Settled(key) /\ applied[key].result = "failed") =>
              (applied[key].synced = applied[key].mate_pushed)

\* a batch without a cached base, fetched and pushed at the upper clamp
C32_Witness ==
    LET a == applied["L1"] IN
    /\ Settled("L1") /\ a.result = "pushed"
    /\ a.base = None /\ a.fetched = Some(96) /\ a.delta > 4 /\ a.brightness = 100

\* a batch that failed in a pass of its own
C32_WitnessFailed ==
    /\ Settled("L1") /\ applied["L1"].result = "failed"
    /\ applied["L1"].base # None /\ ~applied["L1"].synced

\* a batch that failed in a pass in which the other light was pushed
C32_WitnessMixed ==
    /\ Settled("L1") /\ applied["L1"].result = "failed" /\ applied["L1"].mate_pushed
    /\ applied["L1"].synced

\* ---------------------------------------------------------------------------
\* C33: default and alt image of a render pass
\* ---------------------------------------------------------------------------

\* the binding of a key on the shown page (an input has at most one binding)
BindingOn(key) ==
    LET on_key == {i \in 1..Len(panel.bindings) :
                     panel.bindings[i].page = panel.page /\ panel.bindings[i].index = key}
    IN IF on_key = {} THEN None ELSE Some(panel.bindings[CHOOSE i \in on_key : TRUE])

\* what an image field puts on a key: the image, or nothing when absent or empty
Drawn(image) == IF image = None \/ image = Some("") THEN Cleared ELSE image[1]

ActiveIn(binding) == binding.capability = "Mute" /\ panel.is_muted

\* C33 as stated: after a render pass a bound key of the current page shows the
\* alt image iff the binding is active and its alt image is present and
\* non-empty, and the default image otherwise; an unbound key is cleared
C33_AsStated ==
    panel.rendered =>
        \A key \in 0..(PanelKeys - 1) :
            LET b == BindingOn(key) IN
            IF b = None THEN panel.keys[key] = Cleared
            ELSE panel.keys[key] =
                   (IF ActiveIn(b[1]) /\ b[1].button_image_alt # None
                       /\ b[1].button_image_alt # Some("")
                    THEN Drawn(b[1].button_image_alt)
                    ELSE Drawn(b[1].button_image))

\* what the render pass does: the alt image is taken whenever the binding is
\* active and the alt image is present, empty or not
C33_AltWhenPresent ==
    panel.rendered =>
        \A key \in 0..(PanelKeys - 1) :
            LET b == BindingOn(key) IN
            IF b = None THEN panel.keys[key] = Cleared
            ELSE panel.keys[key] =
                   (IF ActiveIn(b[1]) /\ b[1].button_image_alt # None
                    THEN Drawn(b[1].button_image_alt)
                    ELSE Drawn(b[1].button_image))

\* an active binding with an empty alt image and a default image: key cleared
C33_EmptyAlt ==
    /\ panel.rendered /\ panel.is_muted /\ BindingOn(0) # None
    /\ BindingOn(0)[1].capability = "Mute"
    /\ BindingOn(0)[1].button_image_alt = Some("")
    /\ BindingOn(0)[1].button_image = Some("mute.png")
    /\ panel.keys[0] = Cleared

\* an active binding showing its alt image next to a key bound on the other page
C33_AltShown ==
    /\ panel.rendered /\ panel.keys[0] = "muted.png" /\ panel.keys[1] = Cleared
    /\ \E i \in 1..Len(panel.bindings) :
         panel.bindings[i].index = 1 /\ panel.bindings[i].page # panel.page

\* ---------------------------------------------------------------------------
\* C34: transmissions of one toggle request
\* ---------------------------------------------------------------------------

\* C34 as stated: for one press the toggle request is transmitted at most once,
\* whatever fails on the pooled or the new socket
C34_AsStated == rpc.sent <= 1

\* what the code keeps: one transmission on the pooled socket and one per run
\* of with_retry's closure, 1 + MAX_RETRIES of them
C34_SentPerAttempt ==
    /\ rpc.sent <= (IF rpc.pooled_used THEN 1 ELSE 0) + rpc.attempt + 1
    /\ rpc.attempt <= MAX_RETRIES
    /\ rpc.active = (IF rpc.sent % 2 = 1 THEN ~rpc.active_before ELSE rpc.active_before)
    /\ rpc.result = "Ok" => rpc.sent >= 1

\* the request went out on the pooled socket, its response could not be read,
\* and it went out again on a new socket: the output is as it was before the
\* press and the caller is told the toggle succeeded
C34_SentTwice ==
    /\ rpc.pc = "done" /\ rpc.result = "Ok" /\ rpc.pooled_used /\ rpc.sent = 2
    /\ rpc.active = rpc.active_before

\* ---------------------------------------------------------------------------
\* C35: nested locks and deadlock
\* ---------------------------------------------------------------------------

\* a set of threads each of which waits for a lock held by another of the set
Deadlocked ==
    \E S \in SUBSET NestThreads :
        S # {} /\ \A t \in S : \E u \in S : BlockedBy(t, u)

\* C35 as stated: no thread holds the lock of one cell while it acquires the
\* lock of another, and no interleaving deadlocks
C35_AsStated ==
    /\ \A t \in NestThreads :
         (NextStep(t) # <<>> /\ NextStep(t)[1].do = "acquire") => Held(t) = {}
    /\ ~Deadlocked

\* what holds of the code: locks are nested, always in the same order, and no
\* set of threads waits in a circle
C35_NoDeadlock ==
    /\ ~Deadlocked
    /\ \A t \in NestThreads :
         Held(t) \in SUBSET {"bindings", "system_state", "current_page"}
         \/ Held(t) \in SUBSET {"bindings", "system_state", "IMAGE_CACHE"}
         \/ Held(t) \in SUBSET {"pending", "has_pending"}
         \/ Held(t) \in SUBSET {"plugins", "enabled"}
         \/ Held(t) = {"device_info"}

\* the engine takes the current page while it holds the bindings and the system
\* state, and the state manager waits for the system state meanwhile
C35_EngineNests ==
    /\ Held("engine") = {"bindings", "system_state", "current_page"}
    /\ BlockedBy("state_manager", "engine")

\* ---------------------------------------------------------------------------
\* C36: what set_binding and remove_binding leave alone
\* ---------------------------------------------------------------------------

\* the bindings of a list other than those of input i on page p, in list order
OthersOf(bs, i, p) == SelectSeq(bs, LAMBDA b : b.input # i \/ b.page # p)

\* the bindings of a list on inputs other than i, in list order
OtherInputsOf(bs, i) == SelectSeq(bs, LAMBDA b : b.input # i)

\* the input a remove_binding step was called with, when it removed something
Removed == {bindings[n].input : n \in 1..Len(bindings)}
             \ {bindings'[n].input : n \in 1..Len(bindings')}

\* C36 as stated: set_binding and remove_binding for input i on page p leave
\* every binding whose page differs from p or whose input differs from i
\* unchanged, in content and in relative order
C36_AsStated ==
    [][/\ op' = "set_binding" =>
            OthersOf(bindings', supplied'.input, supplied'.page)
              = OthersOf(bindings, supplied'.input, supplied'.page)
       /\ op' = "remove_binding" =>
            \A i \in Removed : \E p \in 0..MaxBindingPage :
                OthersOf(bindings', i, p) = OthersOf(bindings, i, p)]_vars

\* what the code keeps: the bindings of every other input, on every page, in
\* content and in relative order; the bindings of input i go on all pages
C36_OtherInputsKept ==
    [][/\ op' = "set_binding" =>
            /\ OtherInputsOf(bindings', supplied'.input)
                 = OtherInputsOf(bindings, supplied'.input)
            /\ bindings' = Append(OtherInputsOf(bindings, supplied'.input), supplied')
       /\ op' = "remove_binding" =>
            \E i \in Inputs : bindings' = OtherInputsOf(bindings, i)]_vars

\* ---------------------------------------------------------------------------
\* C37: the toggle state after a press whose command was not spawned
\* ---------------------------------------------------------------------------

\* C37 as stated: a press of a toggling RunCommand binding whose command is
\* empty, does not parse or is rejected by the rate limit, so that nothing is
\* spawned, leaves the toggle state as it was
C37_AsStated ==
    (press.pc = "done" /\ press.binding.toggle /\ ~press.spawned) =>
        toggle_states = press.before

\* what the code does: every handled press of a toggling binding flips the
\* state of its key, spawned or not
C37_FlippedRegardless ==
    (press.pc = "done" /\ press.binding.toggle /\ op = "handled") =>
        /\ toggle_get(toggle_states, binding_key(press.binding))
             = ~toggle_get(press.before, binding_key(press.binding))
        /\ \A k \in DOMAIN press.before :
             k # binding_key(press.binding) => toggle_states[k] = press.before[k]

\* a rate-limited or empty press of a toggling binding that was handled
C37_NotSpawnedFlipped ==
    /\ press.pc = "done" /\ press.binding.toggle /\ ~press.spawned /\ op = "handled"
    /\ toggle_states # press.before

\* ---------------------------------------------------------------------------
\* C38: queued deltas and batch snapshots
\* ---------------------------------------------------------------------------

\* the delta an entry holds, 0 without an entry
PendingDelta(key) == IF key \in DOMAIN pending THEN pending[key].delta ELSE 0

\* the deltas queued for a light since its last snapshot are what its entry
\* holds, and a snapshot takes exactly the deltas queued before it
Conserved ==
    \A key \in Lights :
        /\ PendingDelta(key) = hist[key].sum
        /\ ~applied[key].done => applied[key].delta = applied[key].batch.sum

\* C38 as stated: no queued delta is lost or counted twice, every queued delta
\* is eventually part of a snapshot, and has_pending does not stay clear
\* forever while a non-zero delta is pending
C38_AsStated ==
    /\ []Conserved
    /\ \A key \in Lights : (hist[key].n > 0) ~> (hist[key].n = 0)
    /\ \A key \in Lights :
         (PendingDelta(key) # 0 /\ ~has_pending) ~> (has_pending \/ PendingDelta(key) = 0)

\* C38 amended: no queued delta is lost or counted twice; a non-zero pending
\* delta is eventually snapshotted, unless later deltas cancel it to zero
\* first, in which case the cancelled deltas are in no snapshot; has_pending
\* does not stay clear forever while a non-zero delta is pending
C38_SnapshotOrCancel ==
    /\ []Conserved
    /\ \A key \in Lights :
         (PendingDelta(key) # 0) ~> (hist[key].n = 0 \/ hist[key].sum = 0)
    /\ \A key \in Lights :
         (PendingDelta(key) # 0 /\ ~has_pending) ~> (has_pending \/ PendingDelta(key) = 0)

\* a delta added right after the worker cleared has_pending, the signal still
\* to come
C38_Witness ==
    /\ ~has_pending /\ q_pc = "signal" /\ PendingDelta("L1") # 0
    /\ worker.pc # "sleep"

\* two deltas that cancelled: queued, in no snapshot, nothing pending
C38_WitnessCancelled ==
    /\ hist["L1"].n = 2 /\ hist["L1"].sum = 0 /\ PendingDelta("L1") = 0
    /\ ~has_pending /\ worker.pc = "sleep" /\ q_pc = "idle"

\* ---------------------------------------------------------------------------
\* C39: the controller's cache after a toggle and a brightness batch
\* ---------------------------------------------------------------------------

\* both workers have finished and every remote call of theirs succeeded
BothDone == pair.t_pc = "done" /\ pair.w_pc = "done" /\ ~pair.failed

\* C39 as stated: once the toggle worker and the batch have both finished, the
\* cached brightness and on/off state are those of the light
C39_AsStated == BothDone => pair.cache = Some(pair.light)

\* what holds: the cache is what the worker that wrote it last put there, the
\* state the toggle worker read or the values the batch pushed, and the light
\* is what the last successful set_state sent
C39_LastWriterWins ==
    BothDone =>
        /\ pair.cache = pair.t_read \/ pair.cache = pair.w_pushed
        /\ pair.w_pushed = Some(pair.light) \/ pair.t_read = Some(pair.light)

\* the toggle worker read the light before the batch was pushed and stored what
\* it read after the batch had written the cache
C39_StaleCache ==
    /\ BothDone /\ pair.cache = pair.t_read /\ pair.w_pushed = Some(pair.light)
    /\ pair.cache[1].on # pair.light.on
    /\ pair.cache[1].brightness # pair.light.brightness

\* ---------------------------------------------------------------------------
\* C40: button bindings whose index is not below the key count
\* ---------------------------------------------------------------------------

\* the indices of the bindings of the rendered page
RenderedIndices ==
    {wide.bindings[i].index : i \in {j \in 1..Len(wide.bindings) : wide.bindings[j].page = 0}}

\* C40 as stated: after a render pass no key was written by a binding whose
\* index is not below the key count, whatever the index, and the pass did not
\* panic
C40_AsStated ==
    (wide.rendered /\ \E index \in RenderedIndices : index >= WideKeys) =>
        /\ ~wide.panicked
        /\ \A key \in 0..(WideKeys - 1) : wide.keys[key].by < WideKeys

\* what holds: an index from the key count up to 255 is ignored; a pass panics
\* only on an index of 256 or more whose low eight bits are below the key
\* count, after writing that binding's image to the key of the low eight bits
C40_IgnoredBelow256 ==
    wide.rendered =>
        /\ \A key \in 0..(WideKeys - 1) :
             \/ wide.keys[key].by = -1
             \/ wide.keys[key].by \in RenderedIndices /\ wide.keys[key].by % 256 = key
        /\ wide.panicked =>
             \E index \in RenderedIndices, key \in 0..(WideKeys - 1) :
                /\ index >= 256 /\ index % 256 < WideKeys
                /\ wide.keys[key].by = index
        /\ (\A index \in RenderedIndices : index < 256) => ~wide.panicked

\* an index between the key count and 255 went through a pass and was ignored
C40_SkippedIndex ==
    /\ wide.rendered /\ ~wide.panicked
    /\ \E index \in RenderedIndices : index >= WideKeys /\ index < 256
    /\ \A key \in 0..(WideKeys - 1) : wide.keys[key].by < WideKeys

\* an index of 256 or more wrote to the key of its low eight bits and the pass
\* panicked
C40_WrappedIndex ==
    /\ wide.rendered /\ wide.panicked
    /\ \E key \in 0..(WideKeys - 1) : wide.keys[key].by >= 256

====
